---- MODULE Spec2Model ----
(***************************************************************************)
(* vibehost-setup: the phased remote-provisioning orchestrator.            *)
(*                                                                         *)
(* The process (main.py) is a sequential program: one step of the model is *)
(* one remote command (SSHConnection.run / sudo / conn.run / conn.sudo) or *)
(* one local control step (a print, an except clause, the finally clause). *)
(* Every remote command ends in one of three ways:                         *)
(*   "ok"    exit status 0,                                                *)
(*   "fail"  non-zero exit status (raises UnexpectedExit unless the call   *)
(*           was made with warn=True),                                     *)
(*   "raise" the transport raised (lost channel, timeout): never           *)
(*           suppressed by warn=True.                                      *)
(* Host hardening (lib/host.py) is modelled command by command; the later  *)
(* phases are modelled one step per function they call.                    *)
(***************************************************************************)
EXTENDS Integers, Sequences, FiniteSets, TLC

VARIABLES
    config,        \* the validated VibehostConfig of the run (fixed)
    flags,         \* command line: [dry_run, skip_backups]
    host,          \* the remote host: files, users, running sshd
    entry,         \* which function the caller invoked: "main" or "harden_ssh"
    pc,            \* the function the program is in
    ip,            \* the position inside that function
    phaseIdx,      \* index in PhaseList of the phase run_provisioning called last
    status,        \* NotStarted / Running / Completed / Failed
    exc,           \* the exception in flight (raised = FALSE: none)
    verifyResult,  \* what verify_ssh_key_access returned in this harden_ssh call
    connOpen,      \* SSHConnection._connection holds an open transport
    exitCode,      \* process exit status: "none", 0 or 1
    console,       \* what was printed for the operator (banners, error lines)
    log,           \* remote commands issued in this run, with their outcome
    runs,          \* how many times the operator invoked the program
    sshdAtEntry,   \* content of /etc/ssh/sshd_config when harden_ssh was called
    prev,          \* what the previous invocation left behind
    masked,        \* the last remote command line ended 0 although its command
                   \* had failed (`cmd || true`)
    results,       \* run_provisioning's results: db_passwords, storagebox_pubkey
    handoff,       \* the handoff document on the operator's disk
    frame          \* the local variables of a library function called directly

vars == <<config, flags, host, entry, pc, ip, phaseIdx, status, exc,
          verifyResult, connOpen, exitCode, console, log, runs, sshdAtEntry,
          prev, masked, results, handoff, frame>>

---------------------------------------------------------------------------
(* Bounds *)

\* Invocations of the program against the same host that are explored.
MaxRuns == 2

\* Characters of a public key beyond the compared prefix.
KeyTail == 2

\* config.admin.ssh_public_key[:50]
KeyPrefixLen == 50

---------------------------------------------------------------------------
(* Keys and the authorized_keys file *)

KeyLen == KeyPrefixLen + KeyTail

\* the configured key
KeyA == [i \in 1..KeyLen |-> "A"]
\* another key that agrees with KeyA on the first KeyPrefixLen characters
KeyB == [i \in 1..KeyLen |-> IF i = KeyPrefixLen + 1 THEN "B" ELSE "A"]
\* another key that differs from KeyA in the first character
KeyC == [i \in 1..KeyLen |-> IF i = 1 THEN "C" ELSE "A"]
\* a copy of KeyA cut off after KeyPrefixLen characters
KeyACut == [i \in 1..KeyPrefixLen |-> "A"]

Min(a, b) == IF a < b THEN a ELSE b

\* Python's s[:n]
Prefix(s, n) == SubSeq(s, 1, Min(n, Len(s)))

\* pat occurs in line (grep with a pattern free of regex metacharacters)
Contains(line, pat) ==
    \E i \in 1..(Len(line) - Len(pat) + 1) :
        SubSeq(line, i, i + Len(pat) - 1) = pat

\* a file: exists, and its lines
NoFile == [exists |-> FALSE, lines |-> <<>>]
File(ls) == [exists |-> TRUE, lines |-> ls]

\* exit status 0 of `grep -q 'pat' file`
GrepQ(pat, f) ==
    /\ f.exists
    /\ \E k \in 1..Len(f.lines) : Contains(f.lines[k], pat)

\* exit status 0 of `test -f file`
TestF(f) == f.exists

\* what `tee path << 'VIBEHOST_EOF'\n{content}\nVIBEHOST_EOF` leaves in path,
\* for content = pubkey + "\n": the key line and one empty line
HeredocKeyFile(key) == File(<<key, <<>> >>)

---------------------------------------------------------------------------
(* The program's listing *)

\* main.py run_provisioning: the phases, in the order they are called
PhaseList ==
    << "harden_host", "setup_incus", "setup_network", "create_containers",
       "setup_postgres", "setup_dev_container", "apply_common_setup",
       "setup_backups" >>

NPhases == Len(PhaseList)

\* lib/host.py harden_host: the functions it calls, in order
\* (verify_ssh_key_access is called by harden_ssh, not by harden_host)
HardenHostCalls ==
    << "enable_contrib_repo", "update_system", "create_admin_user",
       "setup_firewall", "install_crowdsec", "setup_unattended_upgrades",
       "configure_kernel_params", "harden_ssh" >>

HostFns == {HardenHostCalls[i] : i \in 1..Len(HardenHostCalls)}
               \cup {"verify_ssh_key_access"}

\* the phase (index in PhaseList) whose code a function belongs to; 0: none
FnPhase(fn) ==
    IF fn \in HostFns \cup {"harden_host"} THEN 1
    ELSE IF \E k \in 1..NPhases : PhaseList[k] = fn
         THEN CHOOSE k \in 1..NPhases : PhaseList[k] = fn
         ELSE 0

\* the banners with the one main.py prints itself (Phase 9) left out
PhaseBannerOmitted(k) ==
    CASE k = 1 -> "Phase 2: Host Hardening"
      [] k = 2 -> "Phase 3: Incus Installation"
      [] k = 3 -> "Phase 5: Network Configuration"
      [] k = 4 -> "Phase 6: Container Creation"
      [] k = 5 -> "Phase 7: PostgreSQL Setup"
      [] k = 6 -> "Phase 8: Dev Container Setup"
      [] k = 7 -> ""
      [] k = 8 -> "Phase 10: Backup Configuration"

\* the banner a phase prints before its first operation
PhaseBanner(k) ==
    CASE k = 1 -> "Phase 2: Host Hardening"
      [] k = 2 -> "Phase 3: Incus Installation"
      [] k = 3 -> "Phase 5: Network Configuration"
      [] k = 4 -> "Phase 6: Container Creation"
      [] k = 5 -> "Phase 7: PostgreSQL Setup"
      [] k = 6 -> "Phase 8: Dev Container Setup"
      [] k = 7 -> "Phase 9: Common Container Setup"
      [] k = 8 -> "Phase 10: Backup Configuration"

\* lib/incus.py setup_incus prints a second banner before the profiles
Phase4Banner == "Phase 4: Resource Pool Profiles"

\* the phase function (index in PhaseList) an operator reads off a banner:
\* main.py 109-131 numbers the phases it calls 2, 3 & 4, 5, 6, 7, 8, 9, 10
BannerPhase(line) ==
    CASE line = "Phase 2: Host Hardening"         -> 1
      [] line = "Phase 3: Incus Installation"     -> 2
      [] line = "Phase 4: Resource Pool Profiles" -> 2
      [] line = "Phase 5: Network Configuration"  -> 3
      [] line = "Phase 6: Container Creation"     -> 4
      [] line = "Phase 7: PostgreSQL Setup"       -> 5
      [] line = "Phase 8: Dev Container Setup"    -> 6
      [] line = "Phase 9: Common Container Setup" -> 7
      [] line = "Phase 10: Backup Configuration"  -> 8
      [] OTHER -> 0

\* straight-line command lists of lib/host.py
UpdateSystemCmds ==
    << "apt-get update", "apt-get upgrade -y" >>

\* the firewall enabled before the SSH rule is added
SetupFirewallEnableFirst ==
    << "apt-get install -y ufw", "ufw --force reset",
       "ufw default deny incoming", "ufw default allow outgoing",
       "ufw --force enable", "ufw allow 22/tcp" >>

SetupFirewallCmds ==
    << "apt-get install -y ufw", "ufw --force reset",
       "ufw default deny incoming", "ufw default allow outgoing",
       "ufw allow 22/tcp", "ufw --force enable" >>

InstallCrowdsecCmds ==
    << "apt-get install -y curl", "curl install.crowdsec.net | bash",
       "apt-get update", "apt-get install -y crowdsec",
       "systemctl enable crowdsec", "systemctl start crowdsec",
       "systemctl enable crowdsec-firewall-bouncer",
       "systemctl start crowdsec-firewall-bouncer" >>

SetupUnattendedUpgradesCmds ==
    << "apt-get install -y unattended-upgrades",
       "tee /etc/apt/apt.conf.d/20auto-upgrades",
       "chmod 644 /etc/apt/apt.conf.d/20auto-upgrades",
       "systemctl enable unattended-upgrades",
       "systemctl start unattended-upgrades" >>

ConfigureKernelParamsCmds ==
    << "tee /etc/sysctl.d/99-vibehost-incus.conf",
       "chmod 644 /etc/sysctl.d/99-vibehost-incus.conf",
       "sysctl --system" >>

\* one step of a later phase: the command (or the function called, where it
\* only issues unguarded commands that may be repeated), the kind of step,
\* the message raised when a check fails, the resource a probe asks about or
\* a creating command makes, and how many following steps a successful probe
\* skips. Kinds: "cmd": a failure raises; "lenient": `cmd || true`, whose
\* exit status is 0 whether or not cmd took effect (the host model does not
\* record its effect); "check":
\* returns a bool and False raises RuntimeError(err); "advisory": returns a
\* bool and False only prints a warning; "probe": run with warn=True, its
\* result decides whether the creating command runs; "create"; "append":
\* adds an entry to a file; "ensure" and "alter": the statements of
\* create_databases
Step(op, kind, err) ==
    [op |-> op, kind |-> kind, err |-> err, res |-> "", skip |-> 0]

Probe(op, r, n) ==
    [op |-> op, kind |-> "probe", err |-> "", res |-> r, skip |-> n]

On(op, kind, r) ==
    [op |-> op, kind |-> kind, err |-> "", res |-> r, skip |-> 0]

\* a check whose failure raises like any other
AdvisoryChecked(op) == Step(op, "check", op)

\* a command run with warn=True whose failure only prints a warning
Advisory(op) == Step(op, "advisory", "")

RECURSIVE Cat(_)
Cat(ss) == IF ss = <<>> THEN <<>> ELSE Head(ss) \o Cat(Tail(ss))

\* `incus profile show p`; create p if it does not show; then configure it
ProfileSteps(p, configure) ==
    << Probe("sudo incus profile show " \o p, "profile " \o p, 1),
       On("incus profile create " \o p, "create", "profile " \o p),
       configure >>

\* prepare_storage_device(ssh, config.storage.device), for a configured
\* device with one mounted file system
PrepareStorageDeviceSteps ==
    << Step("lsblk -n -o MOUNTPOINT <device>", "cmd", ""),
       Step("umount <mountpoint>", "cmd", ""),
       Step("sed -i '/<device>/d' /etc/fstab", "cmd", ""),
       Step("wipefs -a <device>", "cmd", "") >>

PreseedSteps ==
    << Step("tee /tmp/incus-preseed.yaml", "cmd", ""),
       Step("chmod 644 /tmp/incus-preseed.yaml", "cmd", ""),
       On("incus admin init --preseed < /tmp/incus-preseed.yaml", "create",
          "incus storage default"),
       Step("rm /tmp/incus-preseed.yaml", "cmd", "") >>

InitializeIncusSteps ==
    << Probe("sudo incus storage list", "incus storage default",
             Len(PrepareStorageDeviceSteps) + Len(PreseedSteps)) >>
       \o PrepareStorageDeviceSteps
       \o PreseedSteps

ResourceProfiles == <<"dev-pool", "staging-pool", "prod-pool", "db-pool">>

CreateResourceProfilesSteps ==
    Cat([i \in 1..Len(ResourceProfiles) |->
           ProfileSteps(ResourceProfiles[i],
              Step("incus profile set " \o ResourceProfiles[i] \o " limits",
                   "cmd", ""))])

CreateDockerProfileSteps ==
    ProfileSteps("docker-ready",
                 Step("incus profile set docker-ready security", "cmd", ""))

SetupIncusSteps ==
    Cat(<< << Step("install_incus", "cmd", "") >>,
           InitializeIncusSteps,
           CreateResourceProfilesSteps,
           CreateDockerProfileSteps,
           << Step("verify_incus", "check", "Incus verification failed") >> >>)

\* the banner of phase 4 follows initialize_incus
SetupIncusMid == 1 + Len(InitializeIncusSteps)

CreatePrivateNetworkSteps ==
    << Probe("sudo incus network show vibenet-private",
             "network vibenet-private", 2),
       On("incus network create vibenet-private --type=bridge", "create",
          "network vibenet-private"),
       Step("incus network set vibenet-private ipv4.address ipv4.nat ipv6.address",
            "cmd", "") >>

PublicContainers == <<"dev", "staging", "prod">>

AllContainers == <<"dev", "staging", "prod", "postgres">>

CreateMacvlanProfilesSteps ==
    << Probe("sudo incus network show vibenet-public",
             "network vibenet-public", 1),
       On("incus network create vibenet-public --type=macvlan", "create",
          "network vibenet-public") >>
    \o Cat([i \in 1..Len(PublicContainers) |->
              ProfileSteps("public-" \o PublicContainers[i],
                 Step("incus profile device add public-"
                        \o PublicContainers[i] \o " eth0 || true",
                      "lenient", ""))])

CreatePrivateNetworkProfileSteps ==
    Cat([i \in 1..Len(AllContainers) |->
           ProfileSteps("private-" \o AllContainers[i],
              Step("incus profile device add private-"
                     \o AllContainers[i] \o " eth1 || true",
                   "lenient", ""))])

SetupNetworkSteps ==
    Cat(<< CreatePrivateNetworkSteps,
           CreateMacvlanProfilesSteps,
           CreatePrivateNetworkProfileSteps,
           << Step("configure_ufw_for_incus", "cmd", ""),
              Step("verify_network", "check", "Network verification failed") >> >>)

LaunchContainerSteps(c) ==
    << Probe("sudo incus info " \o c, "container " \o c, 1),
       On("incus launch " \o c, "create", "container " \o c) >>

\* wait_for_container's result not looked at
WaitForContainersUnchecked ==
    [i \in 1..Len(AllContainers) |->
       Step("wait_for_container " \o AllContainers[i], "advisory", "")]

\* for c in containers: if not wait_for_container(...): raise RuntimeError
WaitForContainersSteps ==
    [i \in 1..Len(AllContainers) |->
       Step("wait_for_container " \o AllContainers[i], "check",
            "Container failed to start")]

\* what create_containers does inside the containers once they are ready
InContainerCmds ==
    << "configure_public_network", "configure_private_network",
       "systemctl restart systemd-networkd", "setup_container_ssh" >>

CreateContainersSteps ==
    Cat([i \in 1..Len(AllContainers) |-> LaunchContainerSteps(AllContainers[i])])
    \o WaitForContainersSteps
    \o [i \in 1..Len(InContainerCmds) |-> Step(InContainerCmds[i], "cmd", "")]

ConfigurePostgresSteps ==
    << Step("sed -i listen_addresses postgresql.conf", "cmd", ""),
       On("cat >> pg_hba.conf", "append", "pg_hba.conf"),
       Step("tune_postgres_performance", "cmd", ""),
       Step("systemctl restart postgresql", "cmd", "") >>

\* config.postgres.databases: each with user = name and password "generate"
Databases == <<"app_dev", "app_staging", "app_prod">>

CreateDatabasesSteps ==
    Cat([i \in 1..Len(Databases) |->
           << On("psql DO IF NOT EXISTS CREATE ROLE " \o Databases[i],
                 "ensure", "role " \o Databases[i]),
              On("psql ALTER USER " \o Databases[i] \o " PASSWORD",
                 "alter", "role " \o Databases[i]),
              On("psql SELECT 1 FROM pg_database | grep -q 1 || createdb "
                   \o Databases[i],
                 "ensure", "database " \o Databases[i]),
              Step("psql GRANT ALL PRIVILEGES ON DATABASE " \o Databases[i],
                   "cmd", "") >>])

SetupPostgresSteps ==
    Cat(<< << Step("install_postgres", "cmd", "") >>,
           ConfigurePostgresSteps,
           CreateDatabasesSteps,
           << Step("apt-get install -y postgresql-client (dev)", "cmd", ""),
              Advisory("test_postgres_connectivity") >> >>)

InstallPythonSteps ==
    << Step("install_python: apt-get install, uv install", "cmd", ""),
       On("echo 'export PATH' >> /root/.bashrc", "append", "bashrc PATH"),
       Step("uv pip install --system", "cmd", "") >>

ConfigureShellSteps ==
    << On("cat >> /root/.bashrc", "append", "bashrc additions"),
       Step("git config --global", "cmd", "") >>

SetupDevContainerSteps ==
    Cat(<< << Step("install_system_packages", "cmd", "") >>,
           InstallPythonSteps,
           << Step("install_node", "cmd", ""),
              Step("install_extras", "cmd", "") >>,
           ConfigureShellSteps,
           << Step("create_setup_scripts", "cmd", "") >> >>)

\* one step per container of config.common_setup.containers (the default list)
ApplyCommonSetupSteps ==
    << Step("common setup dev", "cmd", ""),
       Step("common setup staging", "cmd", ""),
       Step("common setup prod", "cmd", "") >>

\* config.backups.offsite.enabled
GenerateStorageboxKeySteps ==
    << Probe("test -f storagebox_key", "storagebox key", 1),
       On("ssh-keygen -t ed25519 -N '' -f storagebox_key", "create",
          "storagebox key"),
       Step("cat storagebox_key.pub", "cmd", "") >>

SetupBackupsSteps ==
    Cat(<< << Step("mkdir -p /var/lib/incus/backups/postgres", "cmd", ""),
              Step("mkdir -p /var/lib/incus/backups/offsite", "cmd", "") >>,
           GenerateStorageboxKeySteps,
           << Step("create_snapshot_script", "cmd", ""),
              Step("create_offsite_script", "cmd", ""),
              Step("setup_cron_jobs", "cmd", ""),
              Advisory("test_backup_connectivity"),
              Advisory("run_initial_snapshot") >> >>)

\* the steps of phase k (k >= 2)
PhaseSteps(k) ==
    CASE k = 2 -> SetupIncusSteps
      [] k = 3 -> SetupNetworkSteps
      [] k = 4 -> CreateContainersSteps
      [] k = 5 -> SetupPostgresSteps
      [] k = 6 -> SetupDevContainerSteps
      [] k = 7 -> ApplyCommonSetupSteps
      [] k = 8 -> SetupBackupsSteps

AllSteps == Cat([k \in 1..(NPhases - 1) |-> PhaseSteps(k + 1)])

\* the resources the program probes for and creates, and its appended entries
Resources ==
    {AllSteps[i].res : i \in {j \in 1..Len(AllSteps) :
                                AllSteps[j].kind \in {"create", "ensure"}}}

Roles == {"role " \o Databases[i] : i \in 1..Len(Databases)}

AppendedEntries ==
    {AllSteps[i].res : i \in {j \in 1..Len(AllSteps) :
                                AllSteps[j].kind = "append"}}

---------------------------------------------------------------------------
(* State *)

\* an exception: its message, and where it was raised (its traceback): the
\* phase running, the function, and how many commands had been issued
NoExc == [raised |-> FALSE, msg |-> "", ph |-> 0, fn |-> "", at |-> 0]

\* a server as delivered: no admin user, the distribution's sshd_config
FreshHost ==
    [ adminExists |-> FALSE,
      authKeys    |-> NoFile,      \* /home/<admin>/.ssh/authorized_keys
      sshdConfig  |-> "orig",      \* /etc/ssh/sshd_config
      sshdBackup  |-> "absent",    \* /etc/ssh/sshd_config.backup
      sshdActive  |-> "orig",      \* the configuration the running sshd loaded
      debian      |-> TRUE,        \* /etc/os-release says Debian 12 or later
      applied     |-> {},          \* other commands that took effect
      made        |-> [r \in Resources |-> 0],  \* times each was created
      entries     |-> [e \in AppendedEntries |-> 0], \* copies of each entry
      rolePw      |-> [r \in Roles |-> 0] ]     \* password of each role

\* config.server and config.admin: root with a password (the delivered
\* server), or an unprivileged user with a key; generated is the password
\* the loaded configuration holds in _generated_password (0: none yet)
Configs ==
    { [ssh_user |-> "root", auth_method |-> "password",
       ssh_public_key |-> KeyA, generated |-> 0],
      [ssh_user |-> "deploy", auth_method |-> "ssh_key",
       ssh_public_key |-> KeyA, generated |-> 0] }

\* what generate_password can return
Passwords == {1, 2}

\* DatabaseConfig.actual_password for password "generate": the cached
\* password, or a newly generated one
ActualPassword == IF config.generated = 0 THEN Passwords
                                          ELSE {config.generated}

Flags == [dry_run : BOOLEAN, skip_backups : BOOLEAN]

\* run_provisioning's results before any phase has returned
NoResults == [db_passwords |-> 0, storagebox_pubkey |-> "none"]

\* no handoff document has been written
NoHandoff ==
    [written |-> FALSE, run |-> 0, db_passwords |-> 0,
     storagebox_pubkey |-> "none"]

\* no library function has been called directly
NoFrame == [fn |-> "none"]

\* what an invocation leaves behind for the next: its status and, on the
\* host, the resources, appended entries and role passwords
Left ==
    [status |-> status, made |-> host.made, entries |-> host.entries,
     rolePw |-> host.rolePw]

\* the process before main() has run
ProcessInit ==
    /\ pc = "start"
    /\ ip = 1
    /\ phaseIdx = 0
    /\ status = "NotStarted"
    /\ exc = NoExc
    /\ verifyResult = "none"
    /\ connOpen = FALSE
    /\ exitCode = "none"
    /\ console = <<>>
    /\ log = <<>>
    /\ runs = 0
    /\ sshdAtEntry = "orig"
    /\ masked = FALSE
    /\ results = NoResults
    /\ handoff = NoHandoff
    /\ frame = NoFrame

Init ==
    /\ config \in Configs
    /\ flags = [dry_run |-> FALSE, skip_backups |-> FALSE]
    /\ host \in {FreshHost, [FreshHost EXCEPT !.debian = FALSE]}
    /\ entry = "main"
    /\ ProcessInit
    /\ prev = Left

---------------------------------------------------------------------------
(* Control *)

Outcomes == {"ok", "fail", "raise"}

\* a remote command was issued from the current position and ended with res;
\* the connection is established on first use (SSHConnection.conn)
Issue(cmd, res) ==
    /\ log' = Append(log, [ph |-> FnPhase(pc), fn |-> pc, ip |-> ip,
                           cmd |-> cmd, res |-> res])
    /\ connOpen' = TRUE
    /\ masked' = FALSE

\* a command line `cmd || true` was issued and ended 0; failed tells whether
\* cmd itself had exited non-zero
IssueMasked(cmd, failed) ==
    /\ log' = Append(log, [ph |-> FnPhase(pc), fn |-> pc, ip |-> ip,
                           cmd |-> cmd, res |-> "ok"])
    /\ connOpen' = TRUE
    /\ masked' = failed

NoIssue == UNCHANGED <<log, masked, connOpen>>

Goto(fn, i) ==
    /\ pc' = fn
    /\ ip' = i
    /\ UNCHANGED <<exc, status>>

\* an except clause that swallows the exception: main goes on to the handoff
HandlerSwallows == IF entry = "main" THEN "generate_handoff" ELSE "raised"

\* where an exception raised below run_provisioning lands: its except clause
\* (main.py 137); for a direct call of harden_ssh, the caller
Handler == IF entry = "main" THEN "run_provisioning_except" ELSE "raised"

\* an exception that is recorded while the run goes on with the next phase
RaiseAndContinue(msg) ==
    /\ exc' = [raised |-> TRUE, msg |-> msg, ph |-> phaseIdx, fn |-> pc,
               at |-> Len(log')]
    /\ pc' = "run_provisioning"
    /\ ip' = phaseIdx + 1
    /\ status' = "Failed"

\* an exception leaves the current function; nothing between here and the
\* handler catches it
Raise(msg) ==
    /\ exc' = [raised |-> TRUE, msg |-> msg, ph |-> phaseIdx, fn |-> pc,
               at |-> Len(log')]
    /\ pc' = Handler
    /\ ip' = 1
    /\ status' = IF entry = "main" THEN "Failed" ELSE status

\* the function that harden_host calls after fn, or "" after the last
NextHostFn(fn) ==
    LET i == CHOOSE j \in 1..Len(HardenHostCalls) : HardenHostCalls[j] = fn
    IN  IF i < Len(HardenHostCalls) THEN HardenHostCalls[i + 1] ELSE ""

\* fn of harden_host returns
ReturnHost(fn) ==
    IF NextHostFn(fn) # ""
    THEN Goto(NextHostFn(fn), 1)
    ELSE IF entry = "main" THEN Goto("run_provisioning", 2)
                           ELSE Goto("returned", 1)

Applied(cmd) == host' = [host EXCEPT !.applied = @ \cup {cmd}]

\* str(e): UnexpectedExit names the command, a transport error does not
ExcMsg(cmd, res) == IF res = "fail" THEN cmd ELSE "transport"

\* a function that is a straight list of ssh.sudo(...) commands
Straight(fn, cmds) ==
    /\ pc = fn
    /\ \E res \in {"ok", "fail", "raise"} :
         /\ Issue(cmds[ip], res)
         /\ IF res = "ok"
            THEN /\ Applied(cmds[ip])
                 /\ IF ip < Len(cmds) THEN Goto(fn, ip + 1) ELSE ReturnHost(fn)
            ELSE /\ Raise(ExcMsg(cmds[ip], res))
                 /\ UNCHANGED host
    /\ UNCHANGED <<config, flags, entry, prev, results, handoff, frame, runs, phaseIdx, verifyResult,
                   exitCode, console, sshdAtEntry>>

Say(kind, text) == console' = Append(console, [kind |-> kind, text |-> text])

\* the process ends with status code, without passing main's finally clause
Exit(code) ==
    /\ pc' = "exited"
    /\ ip' = 1
    /\ exitCode' = code

---------------------------------------------------------------------------
(* main.py: main, phase1_validate *)

\* the operator invokes the program (again) with the same configuration file
MainStart ==
    /\ entry = "main"
    /\ pc \in {"start", "exited"}
    /\ runs < MaxRuns
    /\ runs' = runs + 1
    /\ flags' \in Flags
    /\ pc' = "phase1_validate"
    /\ ip' = 1
    /\ phaseIdx' = 0
    /\ status' = "NotStarted"
    /\ exc' = NoExc
    /\ verifyResult' = "none"
    /\ connOpen' = FALSE
    /\ exitCode' = "none"
    /\ console' = <<>>
    /\ log' = <<>>
    /\ sshdAtEntry' = host.sshdConfig
    /\ prev' = Left
    /\ config' = [config EXCEPT !.generated = 0]
    /\ masked' = FALSE
    /\ results' = NoResults
    /\ UNCHANGED <<host, entry, handoff, frame>>

\* sshd lets config.server log in: before hardening always; after it only a
\* non-root user with a key (PermitRootLogin no, PasswordAuthentication no)
LoginPossible ==
    \/ host.sshdActive # "hardened"
    \/ (config.auth_method = "ssh_key" /\ config.ssh_user # "root")

\* the answer of ssh.verify_debian(min_version=12) at main.py 72 when the
\* call returns; lib/ssh.py defines verify_debian_13 only, and a call that
\* raises is the outcome "raise" of that step
VerifyDebian == host.debian

\* --dry-run not looked at
DryRunIgnored == FALSE

\* if dry_run:   (main.py 93)
DryRunExits == flags.dry_run

\* phase1_validate going on whatever test_connection returned
ConnectionRefusedNever(res) == FALSE

\* if not ssh.test_connection():
ConnectionRefused(res) == res # "ok"

Phase1Validate ==
    /\ pc = "phase1_validate"
    /\ \/ \* load_config: the file parses and validates, or sys.exit(1)
          /\ ip = 1
          /\ \E valid \in BOOLEAN :
               IF valid
               THEN /\ Goto(pc, 2)
                    /\ UNCHANGED <<console, exitCode>>
               ELSE /\ Say("error", "Config error")
                    /\ Exit("1")
                    /\ UNCHANGED <<exc, status>>
          /\ NoIssue
       \/ \* ssh.test_connection(): every exception is caught and gives False
          /\ ip = 2
          /\ \E res \in {"ok", "fail", "noconn"} :
               /\ res \in {"ok", "fail"} => LoginPossible
               /\ IF res = "noconn"
                  THEN /\ NoIssue
                  ELSE /\ Issue("echo 'connection test'", res)
               /\ IF ~ConnectionRefused(res)
                  THEN /\ Goto(pc, 3)
                       /\ UNCHANGED <<console, exitCode>>
                  ELSE /\ Say("error", "Could not connect to server")
                       /\ Exit("1")
                       /\ UNCHANGED <<exc, status>>
       \/ \* ssh.verify_debian(min_version=12)
          /\ ip = 3
          /\ \E res \in {"ok", "raise"} :
               /\ Issue("cat /etc/os-release", res)
               /\ IF res = "ok" /\ VerifyDebian
                  THEN /\ Goto(pc, 4)
                       /\ UNCHANGED <<console, exitCode>>
                  ELSE /\ Say("error", IF res = "ok" THEN "Expected Debian 12+"
                                                     ELSE "Traceback")
                       /\ Exit("1")
                       /\ UNCHANGED <<exc, status>>
       \/ \* ssh.get_resources()
          /\ ip = 4
          /\ \E res \in {"ok", "raise"} :
               /\ Issue("get_resources", res)
               /\ IF res = "ok"
                  THEN /\ Goto(pc, 5)
                       /\ UNCHANGED <<console, exitCode>>
                  ELSE /\ Say("error", "Traceback")
                       /\ Exit("1")
                       /\ UNCHANGED <<exc, status>>
       \/ \* if dry_run: ssh.close(); sys.exit(0)
          /\ ip = 5
          /\ IF DryRunExits
             THEN /\ Say("info", "DRY RUN: Validation complete")
                  /\ Exit("0")
                  /\ connOpen' = FALSE
                  /\ UNCHANGED <<exc, status, log, masked>>
             ELSE /\ pc' = "run_provisioning"
                  /\ ip' = 1
                  /\ status' = "Running"
                  /\ UNCHANGED <<exc, console, exitCode, log, masked, connOpen>>
    /\ UNCHANGED <<config, flags, host, entry, prev, results, handoff, frame, runs, phaseIdx, verifyResult,
                   sshdAtEntry>>

---------------------------------------------------------------------------
(* main.py: run_provisioning *)

\* network configuration and container creation called in the other order
PhaseEntrySwapped(k) ==
    CASE k = 1 -> HardenHostCalls[1]
      [] k = 3 -> PhaseList[4]
      [] k = 4 -> PhaseList[3]
      [] OTHER -> PhaseList[k]

\* the first function a phase runs
PhaseEntry(k) == IF k = 1 THEN HardenHostCalls[1] ELSE PhaseList[k]

\* --skip-backups without effect
SkippedNever(k) == FALSE

\* the phase at position k of the list is left out (--skip-backups)
Skipped(k) == k = NPhases /\ flags.skip_backups

RunProvisioning ==
    /\ pc = "run_provisioning"
    /\ IF ip <= NPhases /\ ~Skipped(ip)
       THEN \* call the phase; it prints its banner first
            /\ phaseIdx' = ip
            /\ Say("banner", PhaseBanner(ip))
            /\ Goto(PhaseEntry(ip), 1)
       ELSE IF ip <= NPhases
       THEN /\ Say("info", "Skipping backup configuration (--skip-backups)")
            /\ Goto(pc, ip + 1)
            /\ UNCHANGED phaseIdx
       ELSE \* return results
            /\ status' = "Completed"
            /\ pc' = "generate_handoff"
            /\ ip' = 1
            /\ UNCHANGED <<exc, console, phaseIdx>>
    /\ NoIssue
    /\ UNCHANGED <<config, flags, host, entry, prev, results, handoff, frame, runs, verifyResult, exitCode,
                   sshdAtEntry>>

\* an except clause that undoes what was applied
ExceptUndo ==
    /\ Issue("undo", "ok")
    /\ host' = [host EXCEPT !.applied = {}]

\* what the except clause does to the host: it only prints and re-raises
ExceptEffect ==
    /\ NoIssue
    /\ UNCHANGED host

\* except Exception as e: print; raise   (main.py 137-140)
RunProvisioningExcept ==
    /\ pc = "run_provisioning_except"
    /\ Say("error_run", exc.msg)
    /\ pc' = "main_except"
    /\ ip' = 1
    /\ ExceptEffect
    /\ UNCHANGED <<config, flags, entry, prev, results, handoff, frame, runs, phaseIdx, status, exc,
                   verifyResult, exitCode, sshdAtEntry>>

\* the document generate_handoff renders from its arguments and writes,
\* dated by the invocation that wrote it
HandoffContent(db_passwords, storagebox_pubkey) ==
    [written |-> TRUE, run |-> runs, db_passwords |-> db_passwords,
     storagebox_pubkey |-> storagebox_pubkey]

\* generate_handoff(...): local, no remote command   (main.py 194-199)
GenerateHandoff ==
    /\ pc = "generate_handoff"
    /\ \E res \in {"ok", "raise"} :
         IF res = "ok"
         THEN /\ Say("banner", "Phase 11: Handoff Document Generation")
              /\ handoff' = HandoffContent(results.db_passwords,
                                           results.storagebox_pubkey)
              /\ pc' = "main_summary"
              /\ UNCHANGED exc
         ELSE /\ Say("banner", "Phase 11: Handoff Document Generation")
              /\ exc' = [raised |-> TRUE, msg |-> "handoff", ph |-> 0,
                         fn |-> "generate_handoff", at |-> Len(log)]
              /\ pc' = "main_except"
              /\ UNCHANGED handoff
    /\ ip' = 1
    /\ NoIssue
    /\ UNCHANGED <<config, flags, host, entry, prev, results, frame, runs,
                   phaseIdx, status, verifyResult, exitCode, sshdAtEntry>>

\* the summary panel   (main.py 202-212)
MainSummary ==
    /\ pc = "main_summary"
    /\ Say("info", "Provisioning Complete!")
    /\ pc' = "main_finally"
    /\ ip' = 1
    /\ NoIssue
    /\ UNCHANGED <<config, flags, host, entry, prev, results, handoff, frame, runs, phaseIdx, status, exc,
                   verifyResult, exitCode, sshdAtEntry>>

\* except Exception as e: print; sys.exit(1)   (main.py 214-216)
MainExcept ==
    /\ pc = "main_except"
    /\ Say("error_main", exc.msg)
    /\ exitCode' = "1"
    /\ pc' = "main_finally"
    /\ ip' = 1
    /\ NoIssue
    /\ UNCHANGED <<config, flags, host, entry, prev, results, handoff, frame, runs, phaseIdx, status, exc,
                   verifyResult, sshdAtEntry>>

\* finally: ssh.close()   (main.py 218-219)
MainFinally ==
    /\ pc = "main_finally"
    /\ connOpen' = FALSE
    /\ pc' = "exited"
    /\ ip' = 1
    /\ exitCode' = IF exitCode = "none" THEN "0" ELSE exitCode
    /\ UNCHANGED <<config, flags, host, entry, prev, results, handoff, frame, runs, phaseIdx, status, exc,
                   verifyResult, console, log, masked, sshdAtEntry>>

---------------------------------------------------------------------------
(* lib/host.py *)

\* ssh.sudo(cmd): exit status 0 continues with `done`, anything else raises
SudoCmd(cmd, done) ==
    \E res \in Outcomes :
        /\ Issue(cmd, res)
        /\ IF res = "ok"
           THEN /\ Applied(cmd)
                /\ done
           ELSE /\ Raise(ExcMsg(cmd, res))
                /\ UNCHANGED host

\* what `grep -q` writes to stdout, which is what ssh.run returns
GrepQuietStdout == ""

EnableContribCmds ==
    << "sed -i 's/main non-free-firmware/main contrib non-free-firmware/g'",
       "sed -i 's/^(deb.*) main$/\\1 main contrib/'" >>

EnableContribRepo ==
    /\ pc = "enable_contrib_repo"
    /\ \/ \* result = ssh.run("grep -q ...", warn=True); if result: return
          \* (ssh.run returns stdout: the exit status is not looked at)
          /\ ip = 1
          /\ \E res \in {"done", "raise"} :
               /\ Issue("grep -q 'contrib' /etc/apt/sources.list", res)
               /\ IF res = "raise" THEN Raise("transport")
                  ELSE IF GrepQuietStdout # "" THEN ReturnHost(pc)
                  ELSE Goto(pc, 2)
          /\ UNCHANGED host
       \/ /\ ip \in {2, 3}
          /\ SudoCmd(EnableContribCmds[ip - 1],
                     IF ip = 2 THEN Goto(pc, 3) ELSE ReturnHost(pc))
    /\ UNCHANGED <<config, flags, entry, prev, results, handoff, frame, runs, phaseIdx, verifyResult,
                   exitCode, console, sshdAtEntry>>

UpdateSystem == Straight("update_system", UpdateSystemCmds)

\* what a failed `tee path` can leave behind: the file as it was, or the
\* file truncated (tee opens its target before it reads its input)
TeeFailure(f) == {f, File(<<>>)}

\* the existence probe of resource r ended res: the resource is there
ProbeIgnored(r, res) == FALSE

ProbeFinds(r, res) == res = "ok"

CreateAdminUserCmds ==
    << "id <admin>", "useradd -m -s /bin/bash <admin>",
       "usermod -aG sudo <admin>", "tee /etc/sudoers.d/<admin>",
       "chmod 440 /etc/sudoers.d/<admin>", "mkdir -p /home/<admin>/.ssh",
       "chmod 700 /home/<admin>/.ssh",
       "tee /home/<admin>/.ssh/authorized_keys",
       "chmod 600 /home/<admin>/.ssh/authorized_keys",
       "chown -R <admin>:<admin> /home/<admin>/.ssh" >>

CreateAdminUser ==
    /\ pc = "create_admin_user"
    /\ \/ \* result = ssh.conn.run(f"id {username}", warn=True)
          /\ ip = 1
          /\ \E res \in Outcomes :
               /\ res = "ok" => host.adminExists
               /\ Issue(CreateAdminUserCmds[1], res)
               /\ IF res = "raise" THEN Raise("transport")
                  ELSE IF ProbeFinds("admin", res) THEN Goto(pc, 3)
                  ELSE Goto(pc, 2)
          /\ UNCHANGED host
       \/ \* useradd fails for a user that exists
          /\ ip = 2
          /\ \E res \in Outcomes :
               /\ res = "ok" => ~host.adminExists
               /\ Issue(CreateAdminUserCmds[2], res)
               /\ IF res = "ok"
                  THEN /\ host' = [host EXCEPT !.adminExists = TRUE]
                       /\ Goto(pc, 3)
                  ELSE /\ Raise(ExcMsg(CreateAdminUserCmds[2], res))
                       /\ UNCHANGED host
       \/ /\ ip \in {3, 4, 5, 6, 7, 9}
          /\ SudoCmd(CreateAdminUserCmds[ip], Goto(pc, ip + 1))
       \/ \* ssh.write_file(authorized_keys, f"{pubkey}\n", mode="600"): tee
          /\ ip = 8
          /\ \E res \in Outcomes :
               /\ Issue(CreateAdminUserCmds[8], res)
               /\ IF res = "ok"
                  THEN /\ host' = [host EXCEPT !.authKeys =
                                     HeredocKeyFile(config.ssh_public_key)]
                       /\ Goto(pc, 9)
                  ELSE /\ \E f \in TeeFailure(host.authKeys) :
                             host' = [host EXCEPT !.authKeys = f]
                       /\ Raise(ExcMsg(CreateAdminUserCmds[8], res))
       \/ /\ ip = 10
          /\ SudoCmd(CreateAdminUserCmds[10], ReturnHost(pc))
    /\ UNCHANGED <<config, flags, entry, prev, results, handoff, frame, runs, phaseIdx, verifyResult,
                   exitCode, console, sshdAtEntry>>

SetupFirewall == Straight("setup_firewall", SetupFirewallCmds)

InstallCrowdsec == Straight("install_crowdsec", InstallCrowdsecCmds)

SetupUnattendedUpgrades ==
    Straight("setup_unattended_upgrades", SetupUnattendedUpgradesCmds)

ConfigureKernelParams ==
    Straight("configure_kernel_params", ConfigureKernelParamsCmds)

\* `test -f /home/{admin}/.ssh/authorized_keys` can exit 0
KeyFileProbe == TestF(host.authKeys)

\* `grep -q '{config.admin.ssh_public_key[:50]}' authorized_keys` can exit 0
KeyGrepProbe ==
    GrepQ(Prefix(config.ssh_public_key, KeyPrefixLen), host.authKeys)

VerifySshKeyAccess ==
    /\ pc = "verify_ssh_key_access"
    /\ \/ \* result = ssh.conn.sudo("test -f ...", warn=True)
          /\ ip = 1
          /\ \E res \in Outcomes :
               /\ res = "ok" => KeyFileProbe
               /\ Issue("test -f /home/<admin>/.ssh/authorized_keys", res)
               /\ CASE res = "ok"    -> /\ Goto(pc, 2)
                                        /\ UNCHANGED verifyResult
                    [] res = "fail"  -> /\ verifyResult' = "false"
                                        /\ Goto("harden_ssh", 2)
                    [] res = "raise" -> /\ Raise("transport")
                                        /\ UNCHANGED verifyResult
       \/ \* result = ssh.conn.sudo("grep -q '<key[:50]>' ...", warn=True)
          /\ ip = 2
          /\ \E res \in Outcomes :
               /\ res = "ok" => KeyGrepProbe
               /\ Issue("grep -q '<key[:50]>' authorized_keys", res)
               /\ CASE res = "ok"    -> /\ verifyResult' = "true"
                                        /\ Goto("harden_ssh", 2)
                    [] res = "fail"  -> /\ verifyResult' = "false"
                                        /\ Goto("harden_ssh", 2)
                    [] res = "raise" -> /\ Raise("transport")
                                        /\ UNCHANGED verifyResult
    /\ UNCHANGED <<config, flags, host, entry, prev, results, handoff, frame, runs, phaseIdx, exitCode,
                   console, sshdAtEntry>>

\* harden_ssh without its safety check
GateRefusesNever == FALSE

\* the safety check with its condition inverted
GateInverted == verifyResult = "true"

\* if not verify_ssh_key_access(ssh, config): raise RuntimeError(...)
GateRefuses == verifyResult # "true"

\* the result of `sudo sshd -t` ignored
ValidationRefusesNever(res) == FALSE

\* if not result.ok:  (after `sudo sshd -t`)
ValidationRefuses(res) == res # "ok"

\* the configuration harden_ssh writes (PasswordAuthentication no, ...)
SshdHardened == "hardened"

\* a rollback that leaves sshd_config as the write left it
RollbackOmitted == host.sshdConfig

\* what `mv sshd_config.backup sshd_config` puts in sshd_config
RollbackContent == host.sshdBackup

\* what a failed cp or tee can leave in its target
PartialWrite(old) == {old, "partial"}

HardenSshCmds ==
    << "verify_ssh_key_access", "if not verified: raise",
       "cp /etc/ssh/sshd_config /etc/ssh/sshd_config.backup",
       "tee /etc/ssh/sshd_config", "chmod 644 /etc/ssh/sshd_config",
       "sudo sshd -t",
       "mv /etc/ssh/sshd_config.backup /etc/ssh/sshd_config",
       "systemctl restart sshd" >>

HardenSsh ==
    /\ pc = "harden_ssh"
    /\ \/ \* call verify_ssh_key_access(ssh, config)
          /\ ip = 1
          /\ verifyResult' = "none"
          /\ sshdAtEntry' = host.sshdConfig
          /\ Goto("verify_ssh_key_access", 1)
          /\ NoIssue
          /\ UNCHANGED <<host, console>>
       \/ \* the safety gate
          /\ ip = 2
          /\ NoIssue
          /\ IF GateRefuses
             THEN Raise("Cannot verify SSH key access for admin user")
             ELSE Goto(pc, 3)
          /\ UNCHANGED <<host, console, verifyResult, sshdAtEntry>>
       \/ \* backup original config
          /\ ip = 3
          /\ \E res \in Outcomes :
               /\ Issue(HardenSshCmds[3], res)
               /\ IF res = "ok"
                  THEN /\ host' = [host EXCEPT !.sshdBackup = host.sshdConfig]
                       /\ Goto(pc, 4)
                  ELSE /\ \E c \in PartialWrite(host.sshdBackup) :
                             host' = [host EXCEPT !.sshdBackup = c]
                       /\ Raise(ExcMsg(HardenSshCmds[3], res))
          /\ UNCHANGED <<console, verifyResult, sshdAtEntry>>
       \/ \* ssh.write_file("/etc/ssh/sshd_config", sshd_config): tee
          /\ ip = 4
          /\ \E res \in Outcomes :
               /\ Issue(HardenSshCmds[4], res)
               /\ IF res = "ok"
                  THEN /\ host' = [host EXCEPT !.sshdConfig = SshdHardened]
                       /\ Goto(pc, 5)
                  ELSE /\ \E c \in PartialWrite(host.sshdConfig) :
                             host' = [host EXCEPT !.sshdConfig = c]
                       /\ Raise(ExcMsg(HardenSshCmds[4], res))
          /\ UNCHANGED <<console, verifyResult, sshdAtEntry>>
       \/ \* ssh.write_file: chmod
          /\ ip = 5
          /\ \E res \in Outcomes :
               /\ Issue(HardenSshCmds[5], res)
               /\ IF res = "ok" THEN Goto(pc, 6)
                  ELSE Raise(ExcMsg(HardenSshCmds[5], res))
          /\ UNCHANGED <<host, console, verifyResult, sshdAtEntry>>
       \/ \* result = ssh.conn.run("sudo sshd -t", warn=True)
          /\ ip = 6
          /\ \E res \in Outcomes :
               /\ Issue(HardenSshCmds[6], res)
               /\ IF res = "raise"
                  THEN /\ Raise("transport")
                       /\ UNCHANGED console
                  ELSE IF ValidationRefuses(res)
                  THEN /\ Say("error", "SSH config test failed")
                       /\ Goto(pc, 7)
                  ELSE /\ Goto(pc, 8)
                       /\ UNCHANGED console
          /\ UNCHANGED <<host, verifyResult, sshdAtEntry>>
       \/ \* restore the backup, then raise RuntimeError
          /\ ip = 7
          /\ \E res \in Outcomes :
               /\ res = "ok" => host.sshdBackup # "absent"
               /\ Issue(HardenSshCmds[7], res)
               /\ IF res = "ok"
                  THEN /\ host' = [host EXCEPT !.sshdConfig = RollbackContent,
                                               !.sshdBackup = "absent"]
                       /\ Raise("SSH configuration test failed")
                  ELSE /\ UNCHANGED host
                       /\ Raise(ExcMsg(HardenSshCmds[7], res))
          /\ UNCHANGED <<console, verifyResult, sshdAtEntry>>
       \/ \* restart SSH service
          /\ ip = 8
          /\ \E res \in Outcomes :
               /\ Issue(HardenSshCmds[8], res)
               /\ IF res = "ok"
                  THEN /\ host' = [host EXCEPT !.sshdActive = host.sshdConfig]
                       /\ ReturnHost(pc)
                  ELSE /\ UNCHANGED host
                       /\ Raise(ExcMsg(HardenSshCmds[8], res))
          /\ UNCHANGED <<console, verifyResult, sshdAtEntry>>
    /\ UNCHANGED <<config, flags, entry, prev, results, handoff, frame, runs, phaseIdx, exitCode>>

---------------------------------------------------------------------------
(* The later phases *)

\* CREATE ROLE / createdb run: the statement's own test finds nothing
EnsureUnguarded(r) == TRUE

EnsureCreates(r) == host.made[r] = 0

Made(r) == [host EXCEPT !.made[r] = @ + 1]

\* the content of the storage box key's .pub file
PubKeyFile == "ssh-ed25519 storagebox"

\* what generate_storagebox_key returns: `cat <key>.pub`, whether it found
\* the key or generated it
GenerateStorageboxKeyReturns(found) ==
    IF found THEN PubKeyFile ELSE PubKeyFile

\* run_provisioning's results after phase k has returned: setup_postgres
\* returns the passwords of create_databases, setup_backups the value of
\* generate_storagebox_key
Returned(k) ==
    CASE k = 5 -> [results EXCEPT !.db_passwords = config.generated]
      [] k = 8 -> [results EXCEPT !.storagebox_pubkey =
                      GenerateStorageboxKeyReturns(
                         \E i \in 1..Len(log) :
                            /\ log[i].cmd = GenerateStorageboxKeySteps[1].op
                            /\ log[i].res = "ok")]
      [] OTHER -> results

\* phase k runs the step at ip of its list; after the step `mid` it prints
\* the banner `banner` (mid = 0: no such banner)
PhaseBody(k, steps, mid, banner) ==
    /\ pc = PhaseList[k]
    /\ LET st == steps[ip]
           go(n) == IF n <= Len(steps)
                    THEN /\ Goto(pc, n)
                         /\ UNCHANGED results
                    ELSE /\ Goto("run_provisioning", k + 1)
                         /\ results' = Returned(k)
           to(n) == /\ go(n)
                    /\ IF ip <= mid /\ mid < n THEN Say("banner", banner)
                                               ELSE UNCHANGED console
           done == to(ip + 1)
           usesPw == st.kind \in {"ensure", "alter"} /\ st.res \in Roles
       IN  \E res \in Outcomes, pw \in (IF usesPw THEN ActualPassword ELSE {0}) :
             /\ config' = IF usesPw THEN [config EXCEPT !.generated = pw]
                                    ELSE config
             /\ st.kind = "probe" /\ res = "ok" => host.made[st.res] > 0
             /\ st.kind = "create" /\ res = "ok" => host.made[st.res] = 0
             /\ st.kind = "alter" /\ res = "ok" => host.made[st.res] > 0
             /\ IF st.kind = "lenient" /\ res # "raise"
                THEN IssueMasked(st.op, res = "fail")
                ELSE Issue(st.op, res)
             /\ CASE res = "raise" ->
                       /\ Raise("transport")
                       /\ UNCHANGED <<host, console, results>>
                  [] res = "ok" /\ st.kind = "cmd" ->
                       /\ Applied(st.op)
                       /\ done
                  [] res # "raise" /\ st.kind = "lenient" ->
                       /\ UNCHANGED host
                       /\ done
                  [] res = "ok" /\ st.kind \in {"check", "advisory"} ->
                       /\ UNCHANGED host
                       /\ done
                  [] res = "ok" /\ st.kind = "create" ->
                       /\ host' = Made(st.res)
                       /\ done
                  [] res = "ok" /\ st.kind = "append" ->
                       /\ host' = [host EXCEPT !.entries[st.res] = @ + 1]
                       /\ done
                  [] res = "ok" /\ st.kind = "ensure" ->
                       /\ host' = IF ~EnsureCreates(st.res) THEN host
                                  ELSE IF st.res \in Roles
                                  THEN [Made(st.res) EXCEPT !.rolePw[st.res] = pw]
                                  ELSE Made(st.res)
                       /\ done
                  [] res = "ok" /\ st.kind = "alter" ->
                       /\ host' = [host EXCEPT !.rolePw[st.res] = pw]
                       /\ done
                  [] st.kind = "probe" /\ res # "raise" ->
                       /\ UNCHANGED host
                       /\ IF ProbeFinds(st.res, res) THEN to(ip + 1 + st.skip)
                                                     ELSE done
                  [] res = "fail" /\ st.kind = "check" ->
                       /\ Raise(st.err)
                       /\ UNCHANGED <<host, console, results>>
                  [] res = "fail" /\ st.kind = "advisory" ->
                       /\ Say("warning", st.op)
                       /\ go(ip + 1)
                       /\ UNCHANGED host
                  [] res = "fail"
                       /\ st.kind \in {"cmd", "create", "append", "ensure",
                                       "alter"} ->
                       /\ Raise(st.op)
                       /\ UNCHANGED <<host, console, results>>
    /\ UNCHANGED <<flags, entry, prev, handoff, frame, runs, phaseIdx,
                   verifyResult, exitCode, sshdAtEntry>>

SetupIncus == PhaseBody(2, SetupIncusSteps, SetupIncusMid, Phase4Banner)

SetupNetwork == PhaseBody(3, SetupNetworkSteps, 0, "")

CreateContainers == PhaseBody(4, CreateContainersSteps, 0, "")

SetupPostgres == PhaseBody(5, SetupPostgresSteps, 0, "")

SetupDevContainer == PhaseBody(6, SetupDevContainerSteps, 0, "")

ApplyCommonSetup == PhaseBody(7, ApplyCommonSetupSteps, 0, "")

SetupBackups == PhaseBody(8, SetupBackupsSteps, 0, "")

---------------------------------------------------------------------------
(* Specifications *)

HardenHost ==
    \/ EnableContribRepo
    \/ UpdateSystem
    \/ CreateAdminUser
    \/ SetupFirewall
    \/ InstallCrowdsec
    \/ SetupUnattendedUpgrades
    \/ ConfigureKernelParams
    \/ VerifySshKeyAccess
    \/ HardenSsh

Next ==
    \/ MainStart
    \/ Phase1Validate
    \/ RunProvisioning
    \/ HardenHost
    \/ SetupIncus
    \/ SetupNetwork
    \/ CreateContainers
    \/ SetupPostgres
    \/ SetupDevContainer
    \/ ApplyCommonSetup
    \/ SetupBackups
    \/ RunProvisioningExcept
    \/ GenerateHandoff
    \/ MainSummary
    \/ MainExcept
    \/ MainFinally

\* the program, invoked up to MaxRuns times against one host
Spec == Init /\ [][Next]_vars

\* the hosts harden_ssh can be called on
GateHosts ==
    [ adminExists : {TRUE},
      authKeys    : {NoFile, File(<<>>), HeredocKeyFile(KeyA),
                     File(<<KeyB>>), File(<<KeyC>>), File(<<KeyACut>>),
                     File(<<KeyC, KeyA>>)},
      sshdConfig  : {"orig", "hardened"},
      sshdBackup  : {"absent", "orig"},
      sshdActive  : {"orig"},
      debian      : {TRUE},
      applied     : {{}},
      made        : {[r \in Resources |-> 0]},
      entries     : {[e \in AppendedEntries |-> 0]},
      rolePw      : {[r \in Roles |-> 0]} ]

InitHardenSsh ==
    /\ config \in Configs
    /\ flags = [dry_run |-> FALSE, skip_backups |-> FALSE]
    /\ host \in GateHosts
    /\ entry = "harden_ssh"
    /\ pc = "harden_ssh"
    /\ ip = 1
    /\ phaseIdx = 0
    /\ status = "NotStarted"
    /\ exc = NoExc
    /\ verifyResult = "none"
    /\ connOpen = FALSE
    /\ exitCode = "none"
    /\ console = <<>>
    /\ log = <<>>
    /\ runs = 0
    /\ sshdAtEntry = host.sshdConfig
    /\ masked = FALSE
    /\ results = NoResults
    /\ handoff = NoHandoff
    /\ frame = NoFrame
    /\ prev = Left

NextHardenSsh ==
    \/ VerifySshKeyAccess
    \/ HardenSsh

\* harden_ssh(ssh, config) called on any host
SpecHardenSsh == InitHardenSsh /\ [][NextHardenSsh]_vars

---------------------------------------------------------------------------
(* Properties *)

\* the commands of harden_ssh that come after its safety gate
AfterGateCmds == {HardenSshCmds[i] : i \in 3..Len(HardenSshCmds)}

IssuedCmds == {log[i].cmd : i \in 1..Len(log)}

\* C1: /etc/ssh/sshd_config is written (by the hardened configuration, by a
\* failed write of it, or by the rollback) only inside harden_ssh and only
\* after verify_ssh_key_access returned true in that same invocation; no
\* other step of the program changes the file or what sshd has loaded.
C1_WriteOnlyAfterVerified ==
    [][ (host'.sshdConfig # host.sshdConfig \/ host'.sshdActive # host.sshdActive)
          => (pc = "harden_ssh" /\ ip > 2 /\ verifyResult = "true" /\ connOpen) ]_vars

\* the hardened configuration is in place, written in a second invocation
C1_Witness ==
    /\ host.sshdConfig = SshdHardened
    /\ HardenSshCmds[4] \in IssuedCmds
    /\ verifyResult = "true"
    /\ runs > 1

\* C2: with no authorized_keys file, verify_ssh_key_access does not return
\* true: once it has returned, its result is false, and harden_ssh stops at
\* the gate: none of its later commands is issued and sshd_config is as it
\* was on entry.
C2_AbsentKeyFileRefused ==
    ~host.authKeys.exists =>
        /\ verifyResult # "true"
        /\ (pc = "harden_ssh" /\ ip >= 2) => verifyResult = "false"
        /\ ~(pc = "harden_ssh" /\ ip > 2)
        /\ pc # "returned"
        /\ IssuedCmds \cap AfterGateCmds = {}
        /\ host.sshdConfig = sshdAtEntry

\* harden_ssh has raised at the gate on a host without the file
C2_Witness ==
    /\ ~host.authKeys.exists
    /\ verifyResult = "false"
    /\ pc = "raised"
    /\ exc.msg = "Cannot verify SSH key access for admin user"

\* the file holds the configured key: some line contains all of it
HasKeyMaterial(f, key) ==
    \E k \in 1..Len(f.lines) : Contains(f.lines[k], key)

\* C3: when authorized_keys exists but does not hold the configured key,
\* verify_ssh_key_access does not return true and sshd_config is not
\* written.
C3_ForeignKeyRefused ==
    (host.authKeys.exists
       /\ ~HasKeyMaterial(host.authKeys, config.ssh_public_key))
    => (verifyResult # "true" /\ host.sshdConfig = sshdAtEntry)

\* the lines of a kind printed so far
Printed(kind) ==
    {console[i].text : i \in {j \in 1..Len(console) : console[j].kind = kind}}

\* where control is once an exception has left run_provisioning's try block
Unwinding == {"run_provisioning_except", "main_except", "main_finally", "exited"}

\* C4: when verify_ssh_key_access has returned false the run is aborted:
\* harden_ssh raises at the gate before its backup, write, validation or
\* restart command is issued, sshd_config and the running sshd stay as they
\* were, the run is Failed, and no command of a phase after host hardening
\* is issued.
C4_RefusalAbortsRun ==
    verifyResult = "false" =>
        /\ (pc = "harden_ssh" /\ ip = 2) \/ pc \in Unwinding
        /\ pc \in Unwinding =>
              /\ status = "Failed"
              /\ exc.raised
              /\ exc.msg = "Cannot verify SSH key access for admin user"
              /\ exc.fn = "harden_ssh"
        /\ IssuedCmds \cap AfterGateCmds = {}
        /\ host.sshdConfig = sshdAtEntry
        /\ \A i \in 1..Len(log) : log[i].ph <= 1
        /\ phaseIdx = 1

\* a run that ended with exit status 1 after the check refused
C4_Witness ==
    /\ verifyResult = "false"
    /\ pc = "exited"
    /\ exitCode = "1"
    /\ host.authKeys.exists

\* positions in the log of a command
At(cmd) == {i \in 1..Len(log) : log[i].cmd = cmd}

\* C5: every `systemctl restart sshd` is issued by harden_ssh directly after
\* a `sudo sshd -t` that exited 0, and after a `sudo sshd -t` that did not
\* exit 0 no restart is issued.
C5_RestartOnlyAfterValidation ==
    /\ \A j \in At(HardenSshCmds[8]) :
          /\ j > 1
          /\ log[j - 1].cmd = HardenSshCmds[6]
          /\ log[j - 1].res = "ok"
          /\ log[j].fn = "harden_ssh"
    /\ \A i \in At(HardenSshCmds[6]) :
          log[i].res # "ok" => \A j \in At(HardenSshCmds[8]) : j < i

\* sshd was restarted with the hardened configuration
C5_Witness ==
    /\ At(HardenSshCmds[8]) # {}
    /\ host.sshdActive = SshdHardened
    /\ pc = "setup_incus"

\* C6: when harden_ssh raises "SSH configuration test failed", sshd_config
\* holds what it held when harden_ssh was entered, and the exception goes
\* through run_provisioning's except clause to main, which reports it and
\* exits with status 1.
C6_RollbackRestores ==
    (exc.raised /\ exc.msg = "SSH configuration test failed") =>
        /\ host.sshdConfig = sshdAtEntry
        /\ host.sshdActive # "partial"
        /\ exc.fn = "harden_ssh"
        /\ status = "Failed"
        /\ pc \in Unwinding
        /\ pc \in {"main_except", "main_finally", "exited"} =>
              exc.msg \in Printed("error_run")
        /\ pc \in {"main_finally", "exited"} =>
              (exitCode = "1" /\ exc.msg \in Printed("error_main"))

\* the validation failed in a second invocation, on a host hardened before
C6_Witness ==
    /\ exc.msg = "SSH configuration test failed"
    /\ pc = "exited"
    /\ sshdAtEntry = SshdHardened
    /\ host.sshdConfig = SshdHardened

\* C7: a failed run stopped at the operation that raised: the exception was
\* raised in the phase running, the last command issued is the one issued
\* when it was raised, that command belongs to the failing phase, and no
\* command of a later phase is in the log.
C7_StopsAtFirstFailure ==
    status = "Failed" =>
        /\ exc.raised
        /\ pc \in Unwinding
        /\ exc.ph = phaseIdx
        /\ exc.at = Len(log)
        /\ exc.at >= 1
        /\ log[exc.at].ph = exc.ph
        /\ \A i \in 1..Len(log) : log[i].ph <= exc.ph

\* the third operation of the second phase failed, after the first phase
C7_Witness ==
    /\ status = "Failed"
    /\ pc = "exited"
    /\ exc.ph = 2
    /\ log[Len(log)].fn = PhaseList[2]
    /\ log[Len(log)].ip = 3
    /\ log[Len(log)].res = "fail"

\* the last phase banner on the console
LastBanner ==
    LET B == {j \in 1..Len(console) : console[j].kind = "banner"}
    IN  IF B = {} THEN ""
        ELSE console[CHOOSE j \in B : \A m \in B : m <= j].text

\* the messages of the RuntimeErrors the program raises itself
OwnErrors ==
    {"Cannot verify SSH key access for admin user",
     "SSH configuration test failed"}
    \cup {SetupIncusSteps[i].err : i \in 1..Len(SetupIncusSteps)}
    \cup {SetupNetworkSteps[i].err : i \in 1..Len(SetupNetworkSteps)}
    \cup {CreateContainersSteps[i].err : i \in 1..Len(CreateContainersSteps)}

PhaseOrder ==
    << "harden_host", "setup_incus", "setup_network", "create_containers",
       "setup_postgres", "setup_dev_container", "apply_common_setup",
       "setup_backups" >>

\* the phase a function is part of
PhaseOfFn(fn) == IF fn \in HostFns THEN "harden_host" ELSE fn

\* the position of a command in its phase's program text
ProgramPos(e) ==
    LET fnPos ==
          IF e.fn = "verify_ssh_key_access" THEN 2 * Len(HardenHostCalls) - 1
          ELSE IF e.fn \in HostFns
          THEN 2 * (CHOOSE j \in 1..Len(HardenHostCalls) :
                        HardenHostCalls[j] = e.fn)
          ELSE 0
    IN  100 * fnPos + e.ip

StatusSteps ==
    { <<"NotStarted", "Running">>, <<"Running", "Completed">>,
      <<"Running", "Failed">> }

\* C9: within an invocation the phase index only moves from k to k + 1, in
\* run_provisioning, while the run is Running and no exception is pending,
\* and the function entered is the k+1-th of the order harden_host,
\* setup_incus, setup_network, create_containers, setup_postgres,
\* setup_dev_container, apply_common_setup, setup_backups; every command
\* issued belongs to the phase running and comes later in the program text
\* than the command before it; the run's status only steps from NotStarted
\* to Running and from Running to Completed or Failed.
C9_PhasesInOrder ==
    [][ runs' = runs =>
          /\ phaseIdx' # phaseIdx =>
                /\ pc = "run_provisioning"
                /\ status = "Running" /\ status' = "Running"
                /\ ~exc.raised
                /\ phaseIdx' = phaseIdx + 1
                /\ PhaseOfFn(pc') = PhaseOrder[phaseIdx']
          /\ status' # status => <<status, status'>> \in StatusSteps
          /\ status \in {"Completed", "Failed"} => phaseIdx' = phaseIdx
          /\ (log' # log /\ status = "Running") =>
                LET e == log'[Len(log')]
                IN  /\ log' = Append(log, e)
                    /\ e.ph = phaseIdx
                    /\ PhaseOfFn(e.fn) = PhaseOrder[phaseIdx]
                    /\ (log # <<>> /\ log[Len(log)].ph = e.ph) =>
                          ProgramPos(log[Len(log)]) < ProgramPos(e)
      ]_vars

\* every phase ran, each after the one before it, and the run completed
C9_Witness ==
    /\ status = "Completed"
    /\ phaseIdx = NPhases
    /\ {log[i].ph : i \in 1..Len(log)} = 0..NPhases
    /\ pc = "exited"

\* C10: from the moment a run has failed until the next invocation, the
\* host is not changed and no remote command is issued; the connection is
\* closed by main's finally clause and by nothing else.
C10_NoUndoAfterFailure ==
    [][ (status = "Failed" /\ runs' = runs) =>
          /\ host' = host
          /\ log' = log
          /\ connOpen' # connOpen => (pc = "main_finally" /\ ~connOpen')
      ]_vars

\* container creation failed after a container was launched; the run has
\* ended, the connection is closed and what was applied is still there
C10_Witness ==
    /\ status = "Failed"
    /\ pc = "exited"
    /\ ~connOpen
    /\ exc.ph = 4
    /\ host.made["container dev"] > 0
    /\ host.sshdActive = SshdHardened

\* phase k ran to its last operation, which did not raise
PhaseReturned(k) ==
    IF k = 1
    THEN \E i \in At(HardenSshCmds[8]) : log[i].res = "ok"
    ELSE \E i \in 1..Len(log) :
            /\ log[i].fn = PhaseList[k]
            /\ log[i].ip = Len(PhaseSteps(k))
            /\ \/ log[i].res = "ok"
               \/ /\ log[i].res = "fail"
                  /\ PhaseSteps(k)[log[i].ip].kind = "advisory"

\* the phases this invocation is to run
PhasesToRun == {k \in 1..NPhases : ~Skipped(k)}

\* C11: "Provisioning Complete!" is on the console only when every phase
\* the invocation was to run has returned without an exception and the
\* handoff was written; an invocation that ended after an exception, or
\* after any exit of phase1_validate other than the dry-run exit, has exit
\* status 1, and exit status 0 without --dry-run means every phase returned.
C11_SuccessOnlyIfAllPhases ==
    /\ "Provisioning Complete!" \in Printed("info") =>
          /\ status = "Completed"
          /\ ~exc.raised
          /\ \A k \in PhasesToRun : PhaseReturned(k)
          /\ pc \in {"main_finally", "exited"}
          /\ pc = "exited" => exitCode = "0"
    /\ (pc = "exited" /\ (exc.raised \/ status = "Failed")) => exitCode = "1"
    /\ (pc = "exited" /\ exitCode = "0" /\ ~flags.dry_run) =>
          /\ "Provisioning Complete!" \in Printed("info")
          /\ \A k \in PhasesToRun : PhaseReturned(k)
    /\ (pc = "exited" /\ runs > 0) => exitCode \in {"0", "1"}

\* an invocation with --skip-backups reported success and ended with status 0
C11_Witness ==
    /\ pc = "exited"
    /\ exitCode = "0"
    /\ flags.skip_backups
    /\ "Provisioning Complete!" \in Printed("info")
    /\ \A k \in 1..(NPhases - 1) : PhaseReturned(k)

\* the commands phase1_validate issues: connection test, OS check, resources
ValidateCmds == {"echo 'connection test'", "cat /etc/os-release", "get_resources"}

\* C12: in an invocation with --dry-run no phase is entered, only the
\* connection test, the OS check and the resource check are issued, the
\* host is not changed, and the process ends in phase1_validate.
C12_DryRunChangesNothing ==
    [][ (flags'.dry_run /\ runs' = runs) =>
          /\ host' = host
          /\ phaseIdx' = 0
          /\ status' = "NotStarted"
          /\ pc' \in {"phase1_validate", "exited"}
          /\ IssuedCmds' \subseteq ValidateCmds
      ]_vars

\* a dry run ended with status 0 after its three checks, on a host that an
\* earlier invocation had begun to provision
C12_Witness ==
    /\ flags.dry_run
    /\ pc = "exited"
    /\ exitCode = "0"
    /\ IssuedCmds = ValidateCmds
    /\ ~connOpen
    /\ host.adminExists

\* C13: every invocation that gets to its connection test can establish its
\* session, whatever an earlier invocation with the same configuration left
\* behind.
C13_ReinvocationConnects ==
    (pc = "phase1_validate" /\ ip = 2) => LoginPossible

\* C14: when an invocation succeeds on a host that the previous
\* invocation had already left Completed with every phase run, the host holds
\* exactly what that invocation left: no resource was made a second time and
\* no configuration entry was appended a second time.
C14_SecondRunSameEndState ==
    (/\ pc = "exited"
     /\ exitCode = "0"
     /\ status = "Completed"
     /\ prev.status = "Completed"
     /\ \A r \in Resources : prev.made[r] > 0)
        => host.made = prev.made /\ host.entries = prev.entries

\* the commands that handle the temporary preseed file of initialize_incus
PreseedCmds ==
    {PreseedSteps[i].op :
        i \in {j \in 1..Len(PreseedSteps) : PreseedSteps[j].kind = "cmd"}}

\* the commands that configure what the phases install and create
ConfiguringCmds ==
    {AllSteps[i].op : i \in {j \in 1..Len(AllSteps) : AllSteps[j].kind = "cmd"}}
      \ PreseedCmds

\* C15: when an invocation succeeds with every phase run, the host is as an
\* uninterrupted run leaves it, also when an earlier invocation had failed
\* part-way: every resource is there, made once, and every command that
\* configures a resource has taken effect.
C15_RerunConverges ==
    (/\ pc = "exited"
     /\ exitCode = "0"
     /\ status = "Completed"
     /\ ~flags.skip_backups)
        => /\ \A r \in Resources : host.made[r] = 1
           /\ ConfiguringCmds \subseteq host.applied

\* each creating command with the probe that guards it
GuardedCreates ==
    UNION { { <<AllSteps[i].op, AllSteps[j].op>> :
                j \in { n \in (i + 1)..(i + AllSteps[i].skip) :
                          AllSteps[n].kind = "create" } } :
            i \in { n \in 1..Len(AllSteps) : AllSteps[n].kind = "probe" } }
      \cup { <<CreateAdminUserCmds[1], CreateAdminUserCmds[2]>> }

CreateCmds == {g[2] : g \in GuardedCreates}

\* C16: useradd, incus admin init, incus profile create, incus network
\* create, incus launch and ssh-keygen are issued only when the latest probe
\* for the same resource in this invocation has failed; after a probe that
\* found the resource, its creating command is not issued.
C16_CreateOnlyAfterFailedProbe ==
    \A j \in {n \in 1..Len(log) : log[n].cmd \in CreateCmds} :
      \A g \in GuardedCreates :
        log[j].cmd = g[2] =>
           \E i \in 1..(j - 1) :
              /\ log[i].cmd = g[1]
              /\ log[i].res = "fail"
              /\ \A m \in (i + 1)..(j - 1) : log[m].cmd # g[1]

\* a second invocation found the private network and the dev-pool profile and
\* created neither again, and created the public network, which was missing
C16_Witness ==
    /\ runs = 2
    /\ \E i \in At("sudo incus network show vibenet-private") : log[i].res = "ok"
    /\ \E i \in At("sudo incus profile show dev-pool") : log[i].res = "ok"
    /\ At("incus network create vibenet-private --type=bridge") = {}
    /\ At("incus profile create dev-pool") = {}
    /\ \E i \in At("incus network create vibenet-public --type=macvlan") :
          log[i].res = "ok"

DatabaseResources == {"database " \o Databases[i] : i \in 1..Len(Databases)}

\* create_databases has run to its last statement in this invocation
CreateDatabasesDone ==
    \E i \in At(CreateDatabasesSteps[Len(CreateDatabasesSteps)].op) :
        log[i].res = "ok"

\* C17: however often the database phase has run, no role and no database
\* of the configuration has been created more than once; when
\* create_databases has finished, each of the three roles and each of the
\* three databases exists, created exactly once.
C17_ThreeDatabasesThreeRoles ==
    /\ \A r \in Roles \cup DatabaseResources : host.made[r] <= 1
    /\ CreateDatabasesDone =>
          /\ Cardinality({r \in Roles : host.made[r] = 1}) = Len(Databases)
          /\ Cardinality({r \in DatabaseResources : host.made[r] = 1})
                = Len(Databases)

\* the second invocation ran create_databases to its end on a host where the
\* first had already created the three roles and databases
C17_Witness ==
    /\ runs = 2
    /\ \A r \in Roles \cup DatabaseResources : prev.made[r] = 1
    /\ CreateDatabasesDone
    /\ Cardinality(Roles) = 3
    /\ Cardinality(DatabaseResources) = 3

\* C18: a role that the previous, completed invocation left on the host
\* keeps the password that invocation set for it.
C18_PasswordKept ==
    \A r \in Roles :
        (prev.status = "Completed" /\ prev.made[r] > 0)
            => host.rolePw[r] = prev.rolePw[r]

\* C19: when the process has ended, on whichever path, the transport it had
\* established has been closed by SSHConnection.close.
C19_ClosedOnEveryExit == pc = "exited" => ~connOpen

\* C20: ssh.write_file of /home/<admin>/.ssh/authorized_keys either leaves the
\* file with the full new content or leaves it as it was: when its tee command
\* raises, the file is unchanged.
C20_WriteFileAtomic ==
    [][ (/\ pc = "create_admin_user"
         /\ ip = 8
         /\ exc'.raised)
            => host'.authKeys = host.authKeys ]_vars

\* C21: every mutating remote call surfaces its exit status to its caller: no
\* command line is reported as succeeded to the function that issued it while
\* the mutating command inside it ended with a non-zero status.
C21_ExitStatusSurfaced == ~masked

\* the command lines the code hands to Fabric's Connection.sudo itself, which
\* wraps them with sudo whatever the identity   (host.py 86, 92;
\* containers.py 23)
ConnSudoCmds ==
    {"test -f /home/<admin>/.ssh/authorized_keys",
     "grep -q '<key[:50]>' authorized_keys"}
       \cup {"sudo incus info " \o AllContainers[i] : i \in 1..Len(AllContainers)}

\* the command lines issued through Connection.run with sudo written into
\* the command   (host.py 153; incus.py 114, 187, 219; network.py 19-131)
LiteralSudoCmds ==
    {"sudo sshd -t"}
       \cup ({AllSteps[i].op : i \in {j \in 1..Len(AllSteps) :
                                         AllSteps[j].kind = "probe"}}
                \ (ConnSudoCmds \cup {GenerateStorageboxKeySteps[1].op}))

\* the command lines issued through Connection.run / SSHConnection.run /
\* SSHConnection.file_exists: no privilege asked for
UnprivilegedCmds ==
    {"echo 'connection test'", "cat /etc/os-release", "get_resources",
     "id <admin>", "grep -q 'contrib' /etc/apt/sources.list",
     GenerateStorageboxKeySteps[1].op, GenerateStorageboxKeySteps[3].op}

\* SSHConnection.sudo(cmd): root runs cmd directly, any other identity
\* through Connection.sudo
SshSudoWraps(user) == user # "root"

\* whether the command line reaches the host wrapped with sudo
Elevated(user, cmd) ==
    CASE cmd \in ConnSudoCmds \cup LiteralSudoCmds -> TRUE
      [] cmd \in UnprivilegedCmds -> FALSE
      [] OTHER -> SshSudoWraps(user)

\* C22: privileged execution is a direct pass-through whenever the logged-in
\* identity is root: no command line issued while logged in as root is
\* wrapped with sudo (the safety-gate probes, `sshd -t` and the container
\* probes included).
C22_RootPassesThrough ==
    (config.ssh_user = "root" /\ Len(log) > 0)
        => ~Elevated(config.ssh_user, log[Len(log)].cmd)

---------------------------------------------------------------------------
(* ContainerExec and wait_for_container called on their own: the state is  *)
(* in frame, the rest of the process stands still                          *)

others == <<config, flags, host, entry, pc, ip, phaseIdx, status, exc,
            verifyResult, connOpen, exitCode, console, log, runs,
            sshdAtEntry, prev, masked, results, handoff>>

LibraryInit ==
    /\ config \in Configs
    /\ flags = [dry_run |-> FALSE, skip_backups |-> FALSE]
    /\ host = FreshHost
    /\ entry = "library"
    /\ pc = "library"
    /\ ip = 1
    /\ phaseIdx = 0
    /\ status = "NotStarted"
    /\ exc = NoExc
    /\ verifyResult = "none"
    /\ connOpen = TRUE
    /\ exitCode = "none"
    /\ console = <<>>
    /\ log = <<>>
    /\ runs = 0
    /\ sshdAtEntry = "orig"
    /\ masked = FALSE
    /\ results = NoResults
    /\ handoff = NoHandoff
    /\ prev = Left

ContainerNames == {AllContainers[i] : i \in 1..Len(AllContainers)}

\* the exit statuses a command run inside a container may end with
MaxStatus == 2

\* a ContainerExec bound to `container` on a host holding the containers
\* `existing`; whether the path probed is a file there, and the exit status
\* and output of the command run there
ContainerExecFrames ==
    [ fn        : {"ContainerExec"},
      container : ContainerNames,
      existing  : SUBSET ContainerNames,
      file      : BOOLEAN,
      status    : 0..MaxStatus,
      warn      : BOOLEAN,
      op        : {"none"},
      out       : {[kind |-> "none", value |-> ""]} ]

\* what the caller gets: a value, or an exception of some kind
Value(v) == [kind |-> "returned", value |-> v]

Thrown(kind, v) == [kind |-> kind, value |-> v]

\* exit status of `incus exec <container> -- <command>`: 1 with
\* "Instance not found" on stderr when there is no such container, the
\* command's own status otherwise
IncusExec(exists, inner) == IF exists THEN inner ELSE 1

\* stdout of `incus exec`: the command's, nothing without a container
IncusExecStdout(exists, inner) ==
    IF exists /\ inner = 0 THEN "out" ELSE ""

\* ExitStatus as the text UnexpectedExit carries
StatusText(n) == CASE n = 0 -> "0" [] n = 1 -> "1" [] n = 2 -> "2" [] OTHER -> "n"

\* ContainerExec.file_exists(path): result.ok of
\* ssh.conn.sudo("incus exec c -- test -f path", warn=True)
FileExistsOutcome(exists, file) ==
    Value(IF IncusExec(exists, IF file THEN 0 ELSE 1) = 0
          THEN "True" ELSE "False")

\* ContainerExec.run(command, warn): ssh.sudo of the incus exec line, which
\* returns its stdout, or raises UnexpectedExit on a non-zero status unless
\* warn is set
RunOutcome(exists, inner, warn) ==
    IF IncusExec(exists, inner) # 0 /\ ~warn
    THEN Thrown("UnexpectedExit", StatusText(IncusExec(exists, inner)))
    ELSE Value(IncusExecStdout(exists, inner))

ContainerExecFileExists ==
    /\ frame.fn = "ContainerExec"
    /\ frame.op = "none"
    /\ frame' = [frame EXCEPT
                   !.op = "file_exists",
                   !.out = FileExistsOutcome(frame.container \in frame.existing,
                                             frame.file)]
    /\ UNCHANGED others

ContainerExecRun ==
    /\ frame.fn = "ContainerExec"
    /\ frame.op = "none"
    /\ frame' = [frame EXCEPT
                   !.op = "run",
                   !.out = RunOutcome(frame.container \in frame.existing,
                                      frame.status, frame.warn)]
    /\ UNCHANGED others

InitContainerExec ==
    /\ LibraryInit
    /\ frame \in ContainerExecFrames

NextContainerExec ==
    \/ ContainerExecFileExists
    \/ ContainerExecRun

\* one ContainerExec operation on any container of any host
SpecContainerExec == InitContainerExec /\ [][NextContainerExec]_vars

\* C23: an operation addressed to a container that does not exist ends
\* differently from the same operation failing inside an existing container:
\* file_exists does not answer False (file absent), and run does not end the
\* way it ends when the command itself exits non-zero.
C23_MissingContainerDistinct ==
    (/\ frame.fn = "ContainerExec"
     /\ frame.op # "none"
     /\ frame.container \notin frame.existing)
        => /\ frame.op = "file_exists" => frame.out # FileExistsOutcome(TRUE, FALSE)
           /\ frame.op = "run" =>
                 \A st \in 1..MaxStatus : frame.out # RunOutcome(TRUE, st, frame.warn)

\* C24: if test_connection fails (the command fails, or no connection can be
\* made), the process exits with status 1 at once and the invocation issues
\* no remote command besides the connection test: no phase is entered.
C24_NoProvisioningWithoutConnection ==
    /\ [](Len(log) >= 1 /\ log[1].res # "ok"
            => /\ pc = "exited"
               /\ exitCode = "1"
               /\ Len(log) = 1
               /\ phaseIdx = 0
               /\ status = "NotStarted")
    /\ [][ (pc = "phase1_validate" /\ ip = 2 /\ log' = log)
             => (pc' = "exited" /\ exitCode' = "1" /\ phaseIdx' = 0) ]_vars

C24_Witness ==
    /\ pc = "exited"
    /\ exitCode = "1"
    /\ Len(log) = 1
    /\ log[1].cmd = "echo 'connection test'"
    /\ log[1].res = "fail"

\* C25: in an invocation with --skip-backups no command of setup_backups is
\* issued and the phase is never entered, the storage box public key in the
\* results stays None, and a run that completes has run every other phase,
\* harden_host to apply_common_setup, in that order.
C25_SkipBackups ==
    flags.skip_backups =>
       /\ phaseIdx < NPhases
       /\ \A i \in 1..Len(log) : log[i].fn # PhaseList[NPhases] /\ log[i].ph < NPhases
       /\ results.storagebox_pubkey = NoResults.storagebox_pubkey
       /\ status = "Completed" =>
             /\ phaseIdx = NPhases - 1
             /\ \A k \in 1..(NPhases - 1) : \E i \in 1..Len(log) : log[i].ph = k
             /\ \A i \in 1..(Len(log) - 1) : log[i].ph <= log[i + 1].ph

C25_Witness ==
    /\ flags.skip_backups
    /\ status = "Completed"
    /\ pc = "exited"
    /\ "Skipping backup configuration (--skip-backups)" \in Printed("info")

\* C26: the handoff document is written only by generate_handoff after
\* run_provisioning has returned its results (status Completed, no exception,
\* every phase that is not skipped has returned), never in an invocation that
\* failed, and the credentials in it are those of the provisioning results.
C26_HandoffAfterSuccess ==
    /\ []((handoff.written /\ handoff.run = runs) => status = "Completed")
    /\ [][ handoff' # handoff =>
             /\ pc = "generate_handoff"
             /\ status = "Completed"
             /\ ~exc.raised
             /\ phaseIdx = IF flags.skip_backups THEN NPhases - 1 ELSE NPhases
             /\ handoff'.written
             /\ handoff'.db_passwords = results.db_passwords
             /\ handoff'.storagebox_pubkey = results.storagebox_pubkey
             /\ results.db_passwords = config.generated ]_vars

C26_Witness ==
    /\ pc = "main_summary"
    /\ handoff.written
    /\ handoff.run = runs
    /\ handoff.db_passwords \in Passwords
    /\ handoff.storagebox_pubkey = PubKeyFile

\* C27: when generate_storagebox_key finds that the key already exists it
\* returns None, and setup_backups returns that value: once setup_backups has
\* returned in an invocation whose probe `test -f <key>` found the key, the
\* storage box public key in the results is None.
C27_ExistingKeyReturnsNone ==
    (/\ pc = "run_provisioning"
     /\ ip = NPhases + 1
     /\ phaseIdx = NPhases
     /\ \E i \in 1..Len(log) :
           /\ log[i].cmd = GenerateStorageboxKeySteps[1].op
           /\ log[i].res = "ok")
        => results.storagebox_pubkey = NoResults.storagebox_pubkey

\* /etc/apt/sources.list contains 'contrib': one of the sed edits of
\* enable_contrib_repo has been applied to it
SourcesListHasContrib ==
    \E i \in 1..Len(EnableContribCmds) : EnableContribCmds[i] \in host.applied

\* C28: when /etc/apt/sources.list already contains 'contrib',
\* enable_contrib_repo returns after its grep probe without issuing a sed
\* edit.
C28_ContribSkippedWhenEnabled ==
    [][ (/\ pc = "enable_contrib_repo"
         /\ ip = 1
         /\ SourcesListHasContrib
         /\ ~exc'.raised)
            => pc' # "enable_contrib_repo" ]_vars

\* the profiles create_containers launches container c with
LaunchProfiles(c) ==
    IF c = "postgres"
    THEN <<"default", "db-pool", "private-postgres">>
    ELSE <<"default", c \o "-pool", "docker-ready", "public-" \o c,
           "private-" \o c>>

\* the resource whose creation brings profile p into being: the profile
\* `default` is part of the preseed of `incus admin init`, as is the storage
\* pool
ProfileResource(p) ==
    IF p = "default" THEN "incus storage default" ELSE "profile " \o p

\* what `incus launch c` depends on
LaunchNeeds(c) ==
    {"incus storage default", "network vibenet-private",
     "network vibenet-public"}
       \cup {ProfileResource(LaunchProfiles(c)[i]) :
                i \in 1..Len(LaunchProfiles(c))}

\* C29: whenever create_containers issues `incus launch` for a container, the
\* default storage pool, the networks vibenet-private and vibenet-public and
\* every profile named in that launch command exist on the host.
C29_LaunchDependenciesExist ==
    [][ \A c \in ContainerNames :
          (Len(log') > Len(log) /\ log'[Len(log')].cmd = "incus launch " \o c)
             => /\ pc = "create_containers"
                /\ LaunchNeeds(c) \subseteq Resources
                /\ \A r \in LaunchNeeds(c) : host.made[r] > 0 ]_vars

C29_Witness ==
    /\ host.made["container postgres"] > 0
    /\ \E i \in 1..Len(log) :
          log[i].cmd = "incus launch postgres" /\ log[i].res = "ok"

---------------------------------------------------------------------------
(* lib/containers.py: wait_for_container *)

\* timeout: int = 120
Timeout == 120

\* time.sleep(2)
SleepSeconds == 2

\* the longest a remote command takes, in seconds of time.time()
MaxCmdSeconds == 1

\* start = time.time(): nothing has been observed, nothing returned
WaitFrame ==
    [ fn        |-> "wait_for_container",
      at        |-> "while",
      elapsed   |-> 0,
      running   |-> "unknown",
      marker    |-> "unknown",
      cloudinit |-> "unknown",
      exec      |-> "unknown",
      ret       |-> "none" ]

\* while time.time() - start < timeout
Expired(elapsed) == ~(elapsed < Timeout)

\* if result.ok: return True, with the result not looked at
ProbeOkAlways(res) == TRUE

\* result.ok
ProbeOk(res) == res = "ok"

\* one ssh.conn.sudo(..., warn=True) of the loop: it takes some time, and
\* ends with an exit status (observed as yes / no in field obs, then
\* control goes to onOk / onFail) or with an exception that leaves the
\* function
WaitProbe(here, obs, onOk, onFail) ==
    /\ frame.fn = "wait_for_container"
    /\ frame.at = here
    /\ \E res \in Outcomes, d \in 0..MaxCmdSeconds :
         frame' =
            IF res = "raise"
            THEN [frame EXCEPT !.elapsed = @ + d, !.at = "done",
                               !.ret = "raised"]
            ELSE LET seen == [frame EXCEPT !.elapsed = @ + d,
                                           ![obs] = IF res = "ok" THEN "yes"
                                                                  ELSE "no"]
                     goes == IF ProbeOk(res) THEN onOk ELSE onFail
                 IN  IF goes = "return True"
                     THEN [seen EXCEPT !.at = "done", !.ret = "True"]
                     ELSE [seen EXCEPT !.at = goes]
    /\ UNCHANGED others

\* the loop condition: a new iteration, or return False
WaitWhile ==
    /\ frame.fn = "wait_for_container"
    /\ frame.at = "while"
    /\ frame' = IF Expired(frame.elapsed)
                THEN [frame EXCEPT !.at = "done", !.ret = "False"]
                ELSE [frame EXCEPT !.at = "info",
                                   !.running = "unknown",
                                   !.marker = "unknown",
                                   !.cloudinit = "unknown",
                                   !.exec = "unknown"]
    /\ UNCHANGED others

\* incus info <name> | grep 'Status: RUNNING'
WaitInfo == WaitProbe("info", "running", "marker", "sleep")

\* incus exec <name> -- test -f /var/lib/cloud/instance/boot-finished
WaitMarker == WaitProbe("marker", "marker", "return True", "which")

\* incus exec <name> -- which cloud-init
WaitWhich == WaitProbe("which", "cloudinit", "sleep", "echo")

\* incus exec <name> -- echo ready
WaitEcho == WaitProbe("echo", "exec", "return True", "sleep")

\* time.sleep(2), then back to the loop condition
WaitSleep ==
    /\ frame.fn = "wait_for_container"
    /\ frame.at = "sleep"
    /\ frame' = [frame EXCEPT !.elapsed = @ + SleepSeconds, !.at = "while"]
    /\ UNCHANGED others

InitWaitForContainer ==
    /\ LibraryInit
    /\ frame = WaitFrame

NextWaitForContainer ==
    \/ WaitWhile
    \/ WaitInfo
    \/ WaitMarker
    \/ WaitWhich
    \/ WaitEcho
    \/ WaitSleep

\* wait_for_container(ssh, name) against any behaviour of the container
SpecWaitForContainer == InitWaitForContainer /\ [][NextWaitForContainer]_vars

\* the same, with the process running on: every remote command returns or
\* raises, every sleep ends
SpecWaitForContainerFair ==
    SpecWaitForContainer /\ WF_vars(NextWaitForContainer)

\* C30: wait_for_container ends for every behaviour of the container; it
\* returns True only if in its last polling iteration the container was
\* observed RUNNING and either the boot-finished marker was found, or
\* cloud-init was found absent and a command could be executed in the
\* container; it returns False only once the timeout has elapsed.
C30_WaitForContainer ==
    /\ [](frame.ret = "True" =>
             /\ frame.running = "yes"
             /\ \/ frame.marker = "yes"
                \/ /\ frame.marker = "no"
                   /\ frame.cloudinit = "no"
                   /\ frame.exec = "yes")
    /\ [](frame.ret = "False" => frame.elapsed >= Timeout)
    /\ [](frame.elapsed < Timeout + SleepSeconds + 4 * MaxCmdSeconds)
    /\ <>(frame.ret # "none")

\* True returned through the no-cloud-init path, after an earlier iteration
\* that slept
C30_Witness ==
    /\ frame.fn = "wait_for_container"
    /\ frame.ret = "True"
    /\ frame.cloudinit = "no"
    /\ frame.exec = "yes"
    /\ frame.elapsed > SleepSeconds

\* C31: create_containers issues no network file write, systemd-networkd
\* restart or SSH setup inside a container unless wait_for_container has
\* reported each of the four containers ready in this invocation; a container
\* reported not ready makes the phase raise at once.
C31_ConfigureOnlyWhenAllReady ==
    /\ [][ (/\ Len(log') > Len(log)
            /\ \E j \in 1..Len(InContainerCmds) :
                  log'[Len(log')].cmd = InContainerCmds[j])
              => \A c \in ContainerNames :
                    \E i \in 1..Len(log) :
                       /\ log[i].cmd = "wait_for_container " \o c
                       /\ log[i].res = "ok" ]_vars
    /\ []((/\ Len(log) > 0
           /\ \E c \in ContainerNames :
                 log[Len(log)].cmd = "wait_for_container " \o c
           /\ log[Len(log)].res = "fail")
             => /\ status = "Failed"
                /\ exc.raised
                /\ exc.msg = "Container failed to start")

C31_Witness ==
    /\ Len(log) > 0
    /\ log[Len(log)].cmd = InContainerCmds[1]
    /\ \A c \in ContainerNames :
          \E i \in 1..Len(log) :
             log[i].cmd = "wait_for_container " \o c /\ log[i].res = "ok"

\* the advisory checks: the PostgreSQL connectivity test, the Storage Box
\* connectivity test and the initial snapshot
AdvisoryCmds ==
    {"test_postgres_connectivity", "test_backup_connectivity",
     "run_initial_snapshot"}

---------------------------------------------------------------------------
(* lib/containers.py: the CIDR prefix of create_containers *)

\* the prefix lengths of IPv4
PrefixLengths == 0..32

\* 2^n
RECURSIVE Pow2(_)
Pow2(n) == IF n = 0 THEN 1 ELSE 2 * Pow2(n - 1)

\* octet k (1..4) of the netmask with prefix length p
MaskOctet(p, k) ==
    LET bits == IF p <= 8 * (k - 1) THEN 0
                ELSE IF p >= 8 * k THEN 8 ELSE p - 8 * (k - 1)
    IN  256 - Pow2(8 - bits)

\* a string that is a dotted quad, and a string that is a decimal number
\* with or without a leading '/'
QuadText(o) == [form |-> "quad", slash |-> FALSE, n |-> 0, octets |-> o]

NumText(n, slash) ==
    [form |-> "number", slash |-> slash, n |-> n, octets |-> <<0, 0, 0, 0>>]

\* config.network.netmask: every valid dotted-quad netmask, and every prefix
\* length written as "n" or "/n"
Netmasks ==
    {QuadText([k \in 1..4 |-> MaskOctet(p, k)]) : p \in PrefixLengths}
       \cup {NumText(p, sl) : p \in PrefixLengths, sl \in BOOLEAN}

\* the prefix length a netmask stands for
PrefixLength(nm) ==
    IF nm.form = "number" THEN nm.n
    ELSE CHOOSE p \in PrefixLengths :
            nm.octets = [k \in 1..4 |-> MaskOctet(p, k)]

\* netmask.startswith("255")
StartsWith255(nm) ==
    \/ nm.form = "quad" /\ nm.octets[1] = 255
    \/ nm.form = "number" /\ ~nm.slash
          /\ (nm.n = 255 \/ (nm.n >= 2550 /\ nm.n <= 2559))

\* mask_map.get(netmask, "24")
MaskMap(nm) ==
    CASE nm = QuadText(<<255, 255, 255, 0>>)   -> NumText(24, FALSE)
      [] nm = QuadText(<<255, 255, 255, 128>>) -> NumText(25, FALSE)
      [] nm = QuadText(<<255, 255, 255, 192>>) -> NumText(26, FALSE)
      [] nm = QuadText(<<255, 255, 0, 0>>)     -> NumText(16, FALSE)
      [] OTHER                                 -> NumText(24, FALSE)

\* netmask.lstrip("/")
LstripSlash(nm) == [nm EXCEPT !.slash = FALSE]

\* the cidr create_containers computes from the netmask
Cidr(nm) == IF StartsWith255(nm) THEN MaskMap(nm) ELSE LstripSlash(nm)

NoAddress == [form |-> "none", slash |-> FALSE, n |-> 0, octets |-> <<0, 0, 0, 0>>]

\* create_containers past its waits: cidr not computed yet, no eth0.network
\* written
CidrFrames ==
    [ fn      : {"create_containers"},
      netmask : Netmasks,
      cidr    : {NoAddress},
      next    : {1},
      eth0    : {[i \in 1..Len(PublicContainers) |-> NoAddress]} ]

\* netmask = config.network.netmask; if ...: cidr = ... else: cidr = ...
ComputeCidr ==
    /\ frame.fn = "create_containers"
    /\ frame.cidr = NoAddress
    /\ frame' = [frame EXCEPT !.cidr = Cidr(frame.netmask)]
    /\ UNCHANGED others

\* configure_public_network(ssh, name, ip, gateway, cidr) for the next
\* public container: Address=<ip>/<cidr> in eth0.network
ConfigurePublicNetwork ==
    /\ frame.fn = "create_containers"
    /\ frame.cidr # NoAddress
    /\ frame.next <= Len(PublicContainers)
    /\ frame' = [frame EXCEPT !.eth0[frame.next] = frame.cidr,
                              !.next = @ + 1]
    /\ UNCHANGED others

InitCidr ==
    /\ LibraryInit
    /\ frame \in CidrFrames

NextCidr ==
    \/ ComputeCidr
    \/ ConfigurePublicNetwork

\* the network configuration of create_containers for any netmask
SpecCidr == InitCidr /\ [][NextCidr]_vars

\* C33: the CIDR prefix written into each public container's eth0
\* configuration is the decimal prefix length of the configured netmask, for
\* every valid dotted-quad netmask and every netmask given as a prefix length.
C33_CidrIsPrefixLength ==
    frame.fn = "create_containers" =>
       \A i \in 1..Len(PublicContainers) :
          frame.eth0[i] # NoAddress =>
             frame.eth0[i] = NumText(PrefixLength(frame.netmask), FALSE)

\* C34: on every exit of harden_ssh by an exception on which the restart of
\* sshd was not issued, /etc/ssh/sshd_config has the content it had when
\* harden_ssh was called.
C34_NoRestartConfigAsAtEntry ==
    (/\ exc.raised
     /\ exc.fn \in {"harden_ssh", "verify_ssh_key_access"}
     /\ At(HardenSshCmds[8]) = {})
        => host.sshdConfig = sshdAtEntry

---------------------------------------------------------------------------
(* lib/host.py: the firewall and the port of sshd during harden_host *)

\* server.ssh_port: the default, and another port
SshPorts == {22, 2222}

\* "Port 22" of the hardened sshd_config
SshdPort == 22

\* "ufw allow 22/tcp"
AllowedPort == 22

\* the commands of harden_host that act on the firewall or on the port of
\* sshd, in the order harden_host issues them
PortCmds ==
    SetupFirewallCmds
       \o << HardenSshCmds[3], HardenSshCmds[4], HardenSshCmds[6],
             HardenSshCmds[8] >>

\* the host as an invocation finds it: sshd listens on the port the session
\* uses; ufw is not enabled, or enabled with that port allowed
PortFrames ==
    [ fn         : {"harden_host"},
      ssh_port   : SshPorts,
      at         : {1},
      ended      : {"no"},
      runs       : {1},
      active     : BOOLEAN,
      incoming   : {"deny"},
      rules      : SUBSET SshPorts,
      configPort : SshPorts,
      backupPort : {0},
      listenPort : SshPorts,
      reset      : {FALSE} ]

\* what a command that succeeded does to the firewall and to sshd
PortEffect(f, cmd) ==
    CASE cmd = "ufw --force reset" ->
            [f EXCEPT !.active = FALSE, !.incoming = "deny", !.rules = {},
                      !.reset = TRUE]
      [] cmd = "ufw default deny incoming" -> [f EXCEPT !.incoming = "deny"]
      [] cmd = "ufw allow 22/tcp" -> [f EXCEPT !.rules = @ \cup {AllowedPort}]
      [] cmd = "ufw --force enable" -> [f EXCEPT !.active = TRUE]
      [] cmd = HardenSshCmds[3] -> [f EXCEPT !.backupPort = f.configPort]
      [] cmd = HardenSshCmds[4] -> [f EXCEPT !.configPort = SshdPort]
      [] cmd = HardenSshCmds[8] -> [f EXCEPT !.listenPort = f.configPort]
      [] OTHER -> f

\* the next command: it succeeds and takes effect, or it fails and the
\* exception ends harden_host (a failed `sshd -t` moves the backup back
\* first)
PortStep ==
    /\ frame.fn = "harden_host"
    /\ frame.ended = "no"
    /\ LET cmd == PortCmds[frame.at]
       IN  \E res \in Outcomes :
             frame' =
                IF res = "ok"
                THEN [PortEffect(frame, cmd) EXCEPT
                        !.at = IF frame.at < Len(PortCmds) THEN @ + 1 ELSE @,
                        !.ended = IF frame.at < Len(PortCmds) THEN "no"
                                                              ELSE "returned"]
                ELSE IF res = "fail" /\ cmd = HardenSshCmds[6]
                THEN [frame EXCEPT !.configPort = frame.backupPort,
                                   !.ended = "raised"]
                ELSE [frame EXCEPT !.ended = "raised"]
    /\ UNCHANGED others

\* the operator invokes the program again
PortRerun ==
    /\ frame.fn = "harden_host"
    /\ frame.ended # "no"
    /\ frame.runs < MaxRuns
    /\ frame' = [frame EXCEPT !.at = 1, !.ended = "no", !.runs = @ + 1]
    /\ UNCHANGED others

InitPorts ==
    /\ LibraryInit
    /\ frame \in {f \in PortFrames :
                    /\ f.configPort = f.ssh_port
                    /\ f.listenPort = f.ssh_port
                    /\ f.active => f.ssh_port \in f.rules
                    /\ ~f.active => f.rules = {}}

NextPorts ==
    \/ PortStep
    \/ PortRerun

\* setup_firewall and harden_ssh, for each ssh_port, over MaxRuns invocations
SpecPorts == InitPorts /\ [][NextPorts]_vars

\* C35: when host hardening has completed, sshd listens on server.ssh_port
\* and the firewall, if enabled with incoming traffic denied by default,
\* allows that port.
C35_SessionPortOpen ==
    (frame.fn = "harden_host" /\ frame.ended = "returned")
        => /\ frame.listenPort = frame.ssh_port
           /\ (frame.active /\ frame.incoming = "deny")
                 => frame.ssh_port \in frame.rules

\* C38: from the reset of setup_firewall on, in a first invocation and in
\* every later one, whenever the firewall is enabled with incoming traffic
\* denied by default, the rule allowing 22/tcp is present.
C38_SshAllowedWheneverActive ==
    (/\ frame.fn = "harden_host"
     /\ frame.reset
     /\ frame.active
     /\ frame.incoming = "deny")
        => AllowedPort \in frame.rules

\* a second invocation, past its own reset and enable
C38_Witness ==
    /\ frame.fn = "harden_host"
    /\ frame.runs = 2
    /\ frame.at > Len(SetupFirewallCmds)
    /\ frame.active
    /\ frame.incoming = "deny"
    /\ frame.rules = {AllowedPort}

\* the commands of prepare_storage_device that destroy what is on the device
DestructiveCmds ==
    {PrepareStorageDeviceSteps[i].op : i \in 2..Len(PrepareStorageDeviceSteps)}

\* C36: the destructive storage preparation (umount, fstab edit, wipefs) is
\* never issued on a host on which the Incus storage pool `default` exists.
C36_NoWipeWhenPoolExists ==
    [][ (Len(log') > Len(log) /\ log'[Len(log')].cmd \in DestructiveCmds)
           => host.made["incus storage default"] = 0 ]_vars

---------------------------------------------------------------------------
(* lib/postgres.py: create_databases for any accepted configuration *)

\* how many databases the configuration lists
MaxDbs == 2

\* DatabaseConfig.user
DbUsers == {"app", "shared"}

\* DatabaseConfig.password: 0 stands for "generate", anything else is the
\* password written in the configuration
PasswordSettings == {0, 3}

\* config.postgres.databases: names are distinct (the position stands for
\* the name), users and passwords are whatever the file says
DatabaseConfigs == [1..MaxDbs -> [user : DbUsers, password : PasswordSettings]]

\* the four commands create_databases runs for one database
DatabaseCmds == <<"create role if not exists", "alter user", "createdb",
                  "grant">>

\* DatabaseConfig.actual_password, g being what generate_password returns
DbActualPassword(db, g) == IF db.password = 0 THEN g ELSE db.password

\* create_databases about to start: no role on the server, nothing recorded
DatabaseFrames ==
    [ fn        : {"create_databases"},
      dbs       : DatabaseConfigs,
      i         : {1},
      cmd       : {1},
      pw        : {0},
      rolePw    : {[u \in DbUsers |-> 0]},
      passwords : {[k \in 1..MaxDbs |-> 0]},
      ended     : {"no"} ]

\* for db in config.postgres.databases: db_password = db.actual_password;
\* passwords[db_name] = db_password
DatabaseBegin ==
    /\ frame.fn = "create_databases"
    /\ frame.ended = "no"
    /\ frame.i <= MaxDbs
    /\ frame.pw = 0
    /\ \E g \in Passwords :
         LET pw == DbActualPassword(frame.dbs[frame.i], g)
         IN  frame' = [frame EXCEPT !.pw = pw, !.passwords[frame.i] = pw]
    /\ UNCHANGED others

\* the next exec_cmd.run(...) for the database: CREATE ROLE unless the role
\* exists, ALTER USER ... PASSWORD, createdb unless it exists, GRANT; a
\* failure raises
DatabaseCmd ==
    /\ frame.fn = "create_databases"
    /\ frame.ended = "no"
    /\ frame.i <= MaxDbs
    /\ frame.pw # 0
    /\ LET u == frame.dbs[frame.i].user
           done == IF frame.cmd < Len(DatabaseCmds)
                   THEN [frame EXCEPT !.cmd = @ + 1]
                   ELSE [frame EXCEPT !.cmd = 1, !.i = @ + 1, !.pw = 0]
       IN  \E res \in Outcomes :
             frame' =
                IF res # "ok" THEN [frame EXCEPT !.ended = "raised"]
                ELSE CASE frame.cmd = 1 /\ frame.rolePw[u] = 0 ->
                             [done EXCEPT !.rolePw[u] = frame.pw]
                       [] frame.cmd = 2 -> [done EXCEPT !.rolePw[u] = frame.pw]
                       [] OTHER -> done
    /\ UNCHANGED others

\* return passwords
DatabaseReturn ==
    /\ frame.fn = "create_databases"
    /\ frame.ended = "no"
    /\ frame.i > MaxDbs
    /\ frame' = [frame EXCEPT !.ended = "returned"]
    /\ UNCHANGED others

InitDatabases ==
    /\ LibraryInit
    /\ frame \in DatabaseFrames

NextDatabases ==
    \/ DatabaseBegin
    \/ DatabaseCmd
    \/ DatabaseReturn

\* create_databases on a server without roles, for every configuration
SpecDatabases == InitDatabases /\ [][NextDatabases]_vars

\* C37: when create_databases has returned, the password it recorded for
\* each configured database is the password the database's role has on the
\* server.
C37_RecordedPasswordIsRolePassword ==
    (frame.fn = "create_databases" /\ frame.ended = "returned")
        => \A k \in 1..MaxDbs :
              frame.passwords[k] = frame.rolePw[frame.dbs[k].user]

---------------------------------------------------------------------------
(* lib/backups.py: generate_storagebox_key over several invocations *)

\* the login identities, and whether config.backups.offsite.ssh_key_path is
\* in a directory only root can enter (the default /root/.ssh/storagebox_key)
\* or in one every user can read; the host has no key yet (0) or holds the
\* key some earlier generation produced
KeyFrames ==
    [ fn       : {"generate_storagebox_key"},
      user     : {"root", "deploy"},
      private  : BOOLEAN,
      key      : {0, 1},
      at       : {"file_exists"},
      runs     : {1},
      keygens  : {0},
      reported : {<<>>} ]

\* a command run without sudo as frame.user can see the key files
KeyVisible(f) == f.key > 0 /\ (f.user = "root" \/ ~f.private)

\* if ssh.file_exists(key_path): `test -f` through conn.run, without sudo
KeyFileExists ==
    /\ frame.fn = "generate_storagebox_key"
    /\ frame.at = "file_exists"
    /\ \E res \in {"status", "raise"} :
         frame' = IF res = "raise" THEN [frame EXCEPT !.at = "raised"]
                  ELSE IF KeyVisible(frame)
                  THEN [frame EXCEPT !.at = "cat"]
                  ELSE [frame EXCEPT !.at = "ssh-keygen"]
    /\ UNCHANGED others

\* ssh.sudo('ssh-keygen -t ed25519 -N "" -f key_path'): on an existing key
\* ssh-keygen asks whether to overwrite, and what it reads decides
KeyGen ==
    /\ frame.fn = "generate_storagebox_key"
    /\ frame.at = "ssh-keygen"
    /\ \E res \in Outcomes, overwrite \in BOOLEAN :
         frame' =
            IF res = "ok" /\ (frame.key = 0 \/ overwrite)
            THEN [frame EXCEPT !.key = @ + 1, !.keygens = @ + 1, !.at = "cat"]
            ELSE [frame EXCEPT !.keygens = @ + 1, !.at = "raised"]
    /\ UNCHANGED others

\* return ssh.run(f"cat {pub_key_path}"): through conn.run, without sudo
KeyCat ==
    /\ frame.fn = "generate_storagebox_key"
    /\ frame.at = "cat"
    /\ \E res \in Outcomes :
         /\ res = "ok" => KeyVisible(frame)
         /\ frame' = IF res = "ok"
                     THEN [frame EXCEPT !.reported = Append(@, frame.key),
                                        !.at = "returned"]
                     ELSE [frame EXCEPT !.at = "raised"]
    /\ UNCHANGED others

\* the operator invokes the program again
KeyRerun ==
    /\ frame.fn = "generate_storagebox_key"
    /\ frame.at \in {"raised", "returned"}
    /\ frame.runs < MaxRuns
    /\ frame' = [frame EXCEPT !.at = "file_exists", !.runs = @ + 1]
    /\ UNCHANGED others

InitStorageboxKey ==
    /\ LibraryInit
    /\ frame \in KeyFrames

NextStorageboxKey ==
    \/ KeyFileExists
    \/ KeyGen
    \/ KeyCat
    \/ KeyRerun

\* generate_storagebox_key (offsite backups enabled) for either identity
SpecStorageboxKey == InitStorageboxKey /\ [][NextStorageboxKey]_vars

\* C39: over any number of invocations and for either login identity,
\* ssh-keygen is issued only when no key exists at the configured path, and
\* every invocation reports the same public key.
C39_KeygenOnlyWithoutKey ==
    /\ [][ (frame.fn = "generate_storagebox_key"
              /\ frame'.keygens > frame.keygens) => frame.key = 0 ]_vars
    /\ [](frame.fn = "generate_storagebox_key" =>
             \A i, j \in 1..Len(frame.reported) :
                frame.reported[i] = frame.reported[j])

====
